---------------------------- MODULE Spec2Model ----------------------------
(***************************************************************************)
(* A model of the pylang tree-walking interpreter: Scanner -> Parser ->    *)
(* Resolver -> Interpreter, driven by run() of pylang.py.                  *)
(*                                                                         *)
(* The top-level loops of the four components (Scanner.scan_tokens,        *)
(* Parser.parse, Resolver.resolve_statements, Interpreter.interpret) are   *)
(* the actions of the state machine; everything below a top-level step is  *)
(* a recursive operator that follows the visitor method it is named after  *)
(* and threads the component's state through a record.                     *)
(*                                                                         *)
(* Python exceptions are results: every operator that can raise returns a  *)
(* record with the state reached and a field that says how it ended.       *)
(*                                                                         *)
(* The parser's calls of an operand or of a nested expression are made by  *)
(* name: ParserDo("Parser_unary", <<p>>) is the call self._unary() on the  *)
(* parser state p.  X_then(r, rest) is the rest of a method after a call   *)
(* that gave r: nothing when an exception propagates out of the call.      *)
(***************************************************************************)
EXTENDS Integers, Sequences, FiniteSets, TLC

VARIABLES
    pc,           \* position in run(): "scan", "parse", "resolve", "interpret", then
                  \* "exit" (process ended), "returned" (back in the REPL) or "cutoff"
    is_repl,      \* run()'s is_repl argument
    source_code,  \* run()'s source_code: a sequence of characters, or of lexemes
    scanner,      \* Scanner fields: tokens, start, current, line
    parser,       \* Parser fields: tokens, current, had_error
    statements,   \* the list Parser.parse builds / run()'s statements
    resolver,     \* Resolver fields: scopes, current_function, current_class
    interp,       \* Interpreter fields and the objects it has allocated
    ip,           \* index of the next top-level statement (resolver, interpreter loops)
    stdout,       \* every line printed: Logger.error lines and print statements
    exit_code     \* process exit status, -1 while running

vars == <<pc, is_repl, source_code, scanner, parser, statements, resolver, interp, ip, stdout, exit_code>>

---------------------------------------------------------------------------
(* Bounds of the model.                                                    *)

\* iterations one activation of visit_while_stmt may make before the model cuts the run off
MaxIter == 4
\* nested calls before the host raises RecursionError (the host's limit, scaled down)
MaxCallDepth == 4
\* number of lexeme chunks a generated source text is made of
MaxChunks == 3
\* number of statements of a generated token program
MaxStmts == 2
\* number of calls a scenario makes to the function it is about
MaxCalls == 3

---------------------------------------------------------------------------
(* Values: None, bool, float, str and references to heap objects.          *)
(* A number is a normalised fraction <<n, d>> with d > 0.                  *)

Nil == [t |-> "nil", v |-> 0]
Bool(b) == [t |-> "bool", v |-> b]
Str(s) == [t |-> "str", v |-> s]
Num(n) == [t |-> "num", v |-> <<n, 1>>]
FnRef(i) == [t |-> "fn", v |-> i]
ClassRef(i) == [t |-> "class", v |-> i]
InstRef(i) == [t |-> "inst", v |-> i]
ClockFn == [t |-> "clock", v |-> 0]

\* Python's `a is b` / identity-or-value equality on two values of the same tag
SameValue(a, b) == a.t = b.t /\ a.v = b.v

---------------------------------------------------------------------------
(* Tokens (lexer/tokens.py) and AST nodes (ast_pylang).  A node that the   *)
(* resolver may key its side-table on carries `id`, the index of its name  *)
(* or keyword token: Python object identity of the node.                   *)

Token(token_type, lexeme, literal, line) == [token_type |-> token_type, lexeme |-> lexeme, literal |-> literal, line |-> line]

NoneNode == [k |-> "None"]
IsNone(n) == n.k = "None"

Literal(value) == [k |-> "Literal", value |-> value]
Variable(id, name) == [k |-> "Variable", id |-> id, name |-> name]
Assign(id, name, value) == [k |-> "Assign", id |-> id, name |-> name, value |-> value]
Binary(left, operator, right) == [k |-> "Binary", left |-> left, operator |-> operator, right |-> right]
Logical(left, operator, right) == [k |-> "Logical", left |-> left, operator |-> operator, right |-> right]
Unary(operator, right) == [k |-> "Unary", operator |-> operator, right |-> right]
Call(callee, paren, arguments) == [k |-> "Call", callee |-> callee, paren |-> paren, arguments |-> arguments]
Get(object, name) == [k |-> "Get", object |-> object, name |-> name]
SetExpr(object, name, value) == [k |-> "SetExpr", object |-> object, name |-> name, value |-> value]
Self(id, keyword) == [k |-> "Self", id |-> id, keyword |-> keyword]
Super(id, keyword, method) == [k |-> "Super", id |-> id, keyword |-> keyword, method |-> method]
FunctionExpr(params, body) == [k |-> "FunctionExpr", params |-> params, body |-> body]

BlockStmt(stmts) == [k |-> "BlockStmt", statements |-> stmts]
ExpressionStmt(expression) == [k |-> "ExpressionStmt", expression |-> expression]
FunctionStmt(name, params, body) == [k |-> "FunctionStmt", name |-> name, params |-> params, body |-> body]
IfStmt(condition, then_branch, else_branch) == [k |-> "IfStmt", condition |-> condition, then_branch |-> then_branch, else_branch |-> else_branch]
PrintStmt(expression) == [k |-> "PrintStmt", expression |-> expression]
VarStmt(name, initializer) == [k |-> "VarStmt", name |-> name, initializer |-> initializer]
WhileStmt(condition, body) == [k |-> "WhileStmt", condition |-> condition, body |-> body]
ReturnStmt(keyword, value) == [k |-> "ReturnStmt", keyword |-> keyword, value |-> value]
ClassStmt(name, superclass, methods) == [k |-> "ClassStmt", name |-> name, superclass |-> superclass, methods |-> methods]
BreakStmt(keyword) == [k |-> "BreakStmt", keyword |-> keyword]
ContinueStmt(keyword) == [k |-> "ContinueStmt", keyword |-> keyword]

---------------------------------------------------------------------------
(* Logger.error prints "KIND on LINE: MESSAGE"; a line of output is kept   *)
(* as its three parts.  print statements produce lines of kind "print".    *)

LogLine(error_type, line, message) == [kind |-> error_type, line |-> line, text |-> message]

---------------------------------------------------------------------------
(* Parser (parser/parser.py).  The parser state p is the record            *)
(* [tokens, current, had_error, log]; `current` is the 0-based cursor of   *)
(* the source, so tokens[current + 1] is the token under the cursor.       *)
(* A parsing operator returns [p, node, err]: err is TRUE when ParserError *)
(* propagates out of it.                                                   *)

POk(p, node) == [p |-> p, node |-> node, err |-> FALSE]

Parser_peek(p) == p.tokens[p.current + 1]

Parser_is_end(p) == Parser_peek(p).token_type = "EOF"

\* tokens[current - 1]; Python's index -1 is the last token
Parser_previous(p) == IF p.current = 0 THEN p.tokens[Len(p.tokens)] ELSE p.tokens[p.current]

Parser_advance(p) == IF ~Parser_is_end(p) THEN [p EXCEPT !.current = @ + 1] ELSE p

Parser_match(p, types) ==
    IF Parser_is_end(p) THEN [p |-> p, ok |-> FALSE]
    ELSE IF Parser_peek(p).token_type \in types THEN [p |-> Parser_advance(p), ok |-> TRUE]
    ELSE [p |-> p, ok |-> FALSE]

\* Logger.error without touching had_error and without raising
Parser_log(p, line, message) == [p EXCEPT !.log = Append(@, LogLine("SyntaxError", line, message))]

Parser_error(p, token, message) ==
    [p |-> [Parser_log(p, token.line, message) EXCEPT !.had_error = TRUE], node |-> NoneNode, err |-> TRUE]

Parser_consume(p, token_type, message) ==
    LET m == Parser_match(p, {token_type})
    IN  IF m.ok THEN POk(m.p, Parser_previous(m.p)) ELSE Parser_error(p, Parser_peek(p), message)

RECURSIVE Parser_synchronize_loop(_)
Parser_synchronize_loop(p) ==
    IF Parser_is_end(p) THEN p
    ELSE IF Parser_previous(p).token_type = "SEMICOLON" THEN p
    ELSE IF Parser_peek(p).token_type \in {"CLASS", "DEF", "VAR", "FOR", "IF", "WHILE", "PRINT", "RETURN"} THEN p
    ELSE Parser_synchronize_loop(Parser_advance(p))

\* a recovery that does not step over the token of the error first
Parser_synchronize_from_error(p) == Parser_synchronize_loop(p)

Parser_synchronize(p) == Parser_synchronize_loop(Parser_advance(p))

\* the rest of a method once the call that gave r has returned: nothing when
\* ParserError propagates out of the call
Parser_then(r, rest(_)) == IF r.err THEN r ELSE rest(r)

RECURSIVE ParserDo(_, _)
RECURSIVE Parser_block(_)
RECURSIVE Parser_statement(_)
RECURSIVE Parser_declaration(_)

RECURSIVE Parser_parameters_loop(_, _)
\* the while loop of _funtion_declaration / _function_expr that reads ", IDENT"
Parser_parameters_loop(p, parameters) ==
    LET m == Parser_match(p, {"COMMA"})
    IN  IF ~m.ok THEN POk(p, parameters)
        ELSE LET p1 == IF Len(parameters) >= 255
                       THEN Parser_log(m.p, Parser_peek(m.p).line, "Cannot have more than 255 parameters.")
                       ELSE m.p
                 c == Parser_consume(p1, "IDENTIFIER", "Expect parameter name.")
             IN  IF c.err THEN c ELSE Parser_parameters_loop(c.p, Append(parameters, c.node))

Parser_parameters(p) ==
    IF Parser_peek(p).token_type = "RIGHT_PAREN" THEN POk(p, <<>>)
    ELSE LET c == Parser_consume(p, "IDENTIFIER", "Expect parameter name.")
         IN  IF c.err THEN c ELSE Parser_parameters_loop(c.p, <<c.node>>)

Parser_function_expr(p) ==
    Parser_then(Parser_consume(p, "LEFT_PAREN", "Expect '(' after 'def'."), LAMBDA lp :
    Parser_then(Parser_parameters(lp.p), LAMBDA parameters :
    Parser_then(Parser_consume(parameters.p, "RIGHT_PAREN", "Expect ')' after parameters."), LAMBDA rp :
    Parser_then(Parser_consume(rp.p, "LEFT_BRACE", "Expect '{' before function body."), LAMBDA lb :
    Parser_then(Parser_block(lb.p), LAMBDA body :
        POk(body.p, FunctionExpr(parameters.node, body.node)))))))

Parser_primary(p) ==
    LET t == Parser_peek(p).token_type
        m == Parser_match(p, {t})
    IN  CASE t = "FALSE" -> POk(m.p, Literal(Bool(FALSE)))
          [] t = "TRUE" -> POk(m.p, Literal(Bool(TRUE)))
          [] t = "NIL" -> POk(m.p, Literal(Nil))
          [] t \in {"NUMBER", "STRING"} -> POk(m.p, Literal(Parser_previous(m.p).literal))
          [] t = "SUPER" ->
                Parser_then(Parser_consume(m.p, "DOT", "Expected '.' after 'super'."), LAMBDA dot :
                Parser_then(Parser_consume(dot.p, "IDENTIFIER", "Expected superclass method name."), LAMBDA method :
                    POk(method.p, Super(m.p.current, Parser_previous(m.p), method.node))))
          [] t = "SELF" -> POk(m.p, Self(m.p.current, Parser_previous(m.p)))
          [] t = "LEFT_PAREN" ->
                Parser_then(ParserDo("Parser_expression", <<m.p>>), LAMBDA expr :
                Parser_then(Parser_consume(expr.p, "RIGHT_PAREN", "Expect ')' after expression."), LAMBDA rp :
                    POk(rp.p, expr.node)))
          [] t = "DEF" -> Parser_function_expr(m.p)
          [] t = "IDENTIFIER" -> POk(m.p, Variable(m.p.current, Parser_previous(m.p)))
          [] OTHER -> Parser_error(p, Parser_peek(p), "Expected expression.")

RECURSIVE Parser_arguments_loop(_, _)
\* the while loop of _finish_call that reads ", expression"
Parser_arguments_loop(p, arguments) ==
    LET m == Parser_match(p, {"COMMA"})
    IN  IF ~m.ok THEN POk(p, arguments)
        ELSE Parser_then(ParserDo("Parser_expression",
                                  <<IF Len(arguments) >= 255
                                    THEN Parser_log(m.p, Parser_peek(m.p).line, "Cannot have more than 255 arguments.")
                                    ELSE m.p>>), LAMBDA e :
                 Parser_arguments_loop(e.p, Append(arguments, e.node)))

Parser_finish_call(p, callee) ==
    Parser_then(IF Parser_peek(p).token_type = "RIGHT_PAREN" THEN POk(p, <<>>)
                ELSE Parser_then(ParserDo("Parser_expression", <<p>>), LAMBDA e :
                         Parser_arguments_loop(e.p, <<e.node>>)), LAMBDA arguments :
    Parser_then(Parser_consume(arguments.p, "RIGHT_PAREN", "Expect ')' after arguments."), LAMBDA paren :
        POk(paren.p, Call(callee, paren.node, arguments.node))))

RECURSIVE Parser_call_loop(_, _)
\* the while True loop of _call
Parser_call_loop(p, expr) ==
    CASE Parser_match(p, {"LEFT_PAREN"}).ok ->
            Parser_then(Parser_finish_call(Parser_match(p, {"LEFT_PAREN"}).p, expr), LAMBDA c : Parser_call_loop(c.p, c.node))
      [] Parser_match(p, {"DOT"}).ok ->
            Parser_then(Parser_consume(Parser_match(p, {"DOT"}).p, "IDENTIFIER", "Expect property name after '.'."), LAMBDA name :
                Parser_call_loop(name.p, Get(expr, name.node)))
      [] OTHER -> POk(p, expr)

Parser_call(p) ==
    Parser_then(Parser_primary(p), LAMBDA expr : Parser_call_loop(expr.p, expr.node))

RECURSIVE Parser_unary(_)
Parser_unary(p) ==
    IF Parser_match(p, {"BANG", "MINUS"}).ok
    THEN Parser_then(Parser_unary(Parser_match(p, {"BANG", "MINUS"}).p), LAMBDA right :
             POk(right.p, Unary(Parser_previous(Parser_match(p, {"BANG", "MINUS"}).p), right.node)))
    ELSE Parser_call(p)

RECURSIVE Parser_factor_loop(_, _)
Parser_factor_loop(p, expr) ==
    LET m == Parser_match(p, {"SLASH", "STAR"})
    IN  IF ~m.ok THEN POk(p, expr)
        ELSE Parser_then(ParserDo("Parser_unary", <<m.p>>), LAMBDA right :
                 Parser_factor_loop(right.p, Binary(expr, Parser_previous(m.p), right.node)))

Parser_factor(p) ==
    Parser_then(Parser_unary(p), LAMBDA expr : Parser_factor_loop(expr.p, expr.node))

RECURSIVE Parser_term_loop(_, _)
Parser_term_loop(p, expr) ==
    LET m == Parser_match(p, {"PLUS", "MINUS"})
    IN  IF ~m.ok THEN POk(p, expr)
        ELSE Parser_then(ParserDo("Parser_factor", <<m.p>>), LAMBDA right :
                 Parser_term_loop(right.p, Binary(expr, Parser_previous(m.p), right.node)))

Parser_term(p) ==
    Parser_then(Parser_factor(p), LAMBDA expr : Parser_term_loop(expr.p, expr.node))

RECURSIVE Parser_comparison_loop(_, _)
Parser_comparison_loop(p, expr) ==
    LET m == Parser_match(p, {"GREATER", "GREATER_EQUAL", "LESS", "LESS_EQUAL"})
    IN  IF ~m.ok THEN POk(p, expr)
        ELSE Parser_then(ParserDo("Parser_term", <<m.p>>), LAMBDA right :
                 Parser_comparison_loop(right.p, Binary(expr, Parser_previous(m.p), right.node)))

Parser_comparison(p) ==
    Parser_then(Parser_term(p), LAMBDA expr : Parser_comparison_loop(expr.p, expr.node))

RECURSIVE Parser_equality_loop(_, _)
Parser_equality_loop(p, expr) ==
    LET m == Parser_match(p, {"BANG_EQUAL", "EQUAL_EQUAL"})
    IN  IF ~m.ok THEN POk(p, expr)
        ELSE Parser_then(ParserDo("Parser_comparison", <<m.p>>), LAMBDA right :
                 Parser_equality_loop(right.p, Binary(expr, Parser_previous(m.p), right.node)))

Parser_equality(p) ==
    Parser_then(Parser_comparison(p), LAMBDA expr : Parser_equality_loop(expr.p, expr.node))

RECURSIVE Parser_and_loop(_, _)
Parser_and_loop(p, expr) ==
    LET m == Parser_match(p, {"AND"})
    IN  IF ~m.ok THEN POk(p, expr)
        ELSE Parser_then(ParserDo("Parser_equality", <<m.p>>), LAMBDA right :
                 Parser_and_loop(right.p, Logical(expr, Parser_previous(m.p), right.node)))

Parser_and(p) ==
    Parser_then(Parser_equality(p), LAMBDA expr : Parser_and_loop(expr.p, expr.node))

RECURSIVE Parser_or_loop(_, _)
Parser_or_loop(p, expr) ==
    LET m == Parser_match(p, {"OR"})
    IN  IF ~m.ok THEN POk(p, expr)
        ELSE Parser_then(ParserDo("Parser_and", <<m.p>>), LAMBDA right :
                 Parser_or_loop(right.p, Logical(expr, Parser_previous(m.p), right.node)))

Parser_or(p) ==
    Parser_then(Parser_and(p), LAMBDA expr : Parser_or_loop(expr.p, expr.node))

\* the rest of _assignment once "=" is matched; equals is the "=" token
Parser_assignment_value(expr, equals, value) ==
    CASE expr.node.k = "Variable" -> POk(value.p, Assign(expr.node.id, expr.node.name, value.node))
      [] expr.node.k = "Get" -> POk(value.p, SetExpr(expr.node.object, expr.node.name, value.node))
      [] OTHER -> POk(Parser_log(value.p, equals.line, "Invalid assignment target."), expr.node)

Parser_assignment(p) ==
    Parser_then(Parser_or(p), LAMBDA expr :
        IF ~Parser_match(expr.p, {"EQUAL"}).ok THEN expr
        ELSE Parser_then(ParserDo("Parser_assignment", <<Parser_match(expr.p, {"EQUAL"}).p>>), LAMBDA value :
                 Parser_assignment_value(expr, Parser_previous(Parser_match(expr.p, {"EQUAL"}).p), value)))

Parser_expression(p) == Parser_assignment(p)

RECURSIVE Parser_block_loop(_, _)
\* the while loop of _block
Parser_block_loop(p, stmts) ==
    IF Parser_peek(p).token_type = "RIGHT_BRACE" \/ Parser_is_end(p) THEN POk(p, stmts)
    ELSE Parser_then(Parser_declaration(p), LAMBDA d :
             Parser_block_loop(d.p, Append(stmts, d.node)))

Parser_block(p) ==
    Parser_then(Parser_block_loop(p, <<>>), LAMBDA l :
    Parser_then(Parser_consume(l.p, "RIGHT_BRACE", "Expect '}' after block."), LAMBDA c :
        POk(c.p, l.node)))

Parser_funtion_declaration(p, kind) ==
    Parser_then(Parser_consume(p, "IDENTIFIER", "Expect " \o kind \o " name."), LAMBDA name :
    Parser_then(Parser_consume(name.p, "LEFT_PAREN", "Expect '(' after " \o kind \o " name."), LAMBDA lp :
    Parser_then(Parser_parameters(lp.p), LAMBDA parameters :
    Parser_then(Parser_consume(parameters.p, "RIGHT_PAREN", "Expect ')' after parameters."), LAMBDA rp :
    Parser_then(Parser_consume(rp.p, "LEFT_BRACE", "Expect '{' before " \o kind \o " body."), LAMBDA lb :
    Parser_then(Parser_block(lb.p), LAMBDA body :
        POk(body.p, FunctionStmt(name.node, parameters.node, body.node))))))))

RECURSIVE Parser_methods_loop(_, _)
\* the while loop of _class_declaration
Parser_methods_loop(p, methods) ==
    IF Parser_peek(p).token_type = "RIGHT_BRACE" \/ Parser_is_end(p) THEN POk(p, methods)
    ELSE Parser_then(Parser_funtion_declaration(p, "method"), LAMBDA f :
             Parser_methods_loop(f.p, Append(methods, f.node)))

Parser_class_declaration(p) ==
    Parser_then(Parser_consume(p, "IDENTIFIER", "Expected class name."), LAMBDA name :
    Parser_then(IF Parser_match(name.p, {"COLON"}).ok
                THEN Parser_then(Parser_consume(Parser_match(name.p, {"COLON"}).p, "IDENTIFIER", "Expect superclass name."),
                                 LAMBDA c : POk(c.p, Variable(c.p.current, Parser_previous(c.p))))
                ELSE POk(name.p, NoneNode), LAMBDA sup :
    Parser_then(Parser_consume(sup.p, "LEFT_BRACE", "Expect '{' before class body."), LAMBDA lb :
    Parser_then(Parser_methods_loop(lb.p, <<>>), LAMBDA methods :
    Parser_then(Parser_consume(methods.p, "RIGHT_BRACE", "Expect '}' after class body."), LAMBDA rb :
        POk(rb.p, ClassStmt(name.node, sup.node, methods.node)))))))

Parser_var_declaration(p) ==
    Parser_then(Parser_consume(p, "IDENTIFIER", "Expected variable name."), LAMBDA name :
    Parser_then(IF Parser_match(name.p, {"EQUAL"}).ok
                THEN Parser_expression(Parser_match(name.p, {"EQUAL"}).p)
                ELSE POk(name.p, NoneNode), LAMBDA initializer :
    Parser_then(Parser_consume(initializer.p, "SEMICOLON", "Expect ';' after variable declaration."), LAMBDA semi :
        POk(semi.p, VarStmt(name.node, initializer.node)))))

Parser_print_statement(p) ==
    Parser_then(Parser_expression(p), LAMBDA value :
    Parser_then(Parser_consume(value.p, "SEMICOLON", "Expect ';' after value."), LAMBDA semi :
        POk(semi.p, PrintStmt(value.node))))

\* keyword is self._previous(), the "return" token
Parser_return_statement(p) ==
    Parser_then(IF Parser_peek(p).token_type # "SEMICOLON" THEN Parser_expression(p) ELSE POk(p, NoneNode), LAMBDA value :
    Parser_then(Parser_consume(value.p, "SEMICOLON", "Expect ';' after return value."), LAMBDA semi :
        POk(semi.p, ReturnStmt(Parser_previous(p), value.node))))

Parser_expression_statement(p) ==
    Parser_then(Parser_expression(p), LAMBDA value :
    Parser_then(Parser_consume(value.p, "SEMICOLON", "Expect ';' after expression."), LAMBDA semi :
        POk(semi.p, ExpressionStmt(value.node))))

\* the desugaring at the end of _for_statement
\* a desugaring that puts the increment before the body
Parser_for_desugar_increment_first(initializer, condition, increment, body) ==
    LET body1 == IF ~IsNone(increment) THEN BlockStmt(<<ExpressionStmt(increment), body>>) ELSE body
        body2 == WhileStmt(IF IsNone(condition) THEN Literal(Bool(TRUE)) ELSE condition, body1)
    IN  IF ~IsNone(initializer) THEN BlockStmt(<<initializer, body2>>) ELSE body2

Parser_for_desugar(initializer, condition, increment, body) ==
    LET body1 == IF ~IsNone(increment) THEN BlockStmt(<<body, ExpressionStmt(increment)>>) ELSE body
        body2 == WhileStmt(IF IsNone(condition) THEN Literal(Bool(TRUE)) ELSE condition, body1)
    IN  IF ~IsNone(initializer) THEN BlockStmt(<<initializer, body2>>) ELSE body2

Parser_for_statement(p) ==
    Parser_then(Parser_consume(p, "LEFT_PAREN", "Expect '(' after 'for'."), LAMBDA lp :
    Parser_then(CASE Parser_peek(lp.p).token_type = "SEMICOLON" -> POk(Parser_advance(lp.p), NoneNode)
                  [] Parser_peek(lp.p).token_type = "VAR" -> Parser_var_declaration(Parser_advance(lp.p))
                  [] OTHER -> Parser_expression_statement(lp.p), LAMBDA initializer :
    Parser_then(IF Parser_peek(initializer.p).token_type # "SEMICOLON"
                THEN Parser_expression(initializer.p) ELSE POk(initializer.p, NoneNode), LAMBDA cond :
    Parser_then(Parser_consume(cond.p, "SEMICOLON", "Expect ';' after loop condition."), LAMBDA semi :
    Parser_then(IF Parser_peek(semi.p).token_type # "RIGHT_PAREN"
                THEN Parser_expression(semi.p) ELSE POk(semi.p, NoneNode), LAMBDA increment :
    Parser_then(Parser_consume(increment.p, "RIGHT_PAREN", "Expect ')' after for clauses."), LAMBDA rp :
    Parser_then(Parser_statement(rp.p), LAMBDA body :
        POk(body.p, Parser_for_desugar(initializer.node, cond.node, increment.node, body.node)))))))))

Parser_if_statement(p) ==
    Parser_then(Parser_consume(p, "LEFT_PAREN", "Expect '(' after 'if'."), LAMBDA lp :
    Parser_then(Parser_expression(lp.p), LAMBDA condition :
    Parser_then(Parser_consume(condition.p, "RIGHT_PAREN", "Expect ')' after if condition."), LAMBDA rp :
    Parser_then(Parser_statement(rp.p), LAMBDA then_branch :
    Parser_then(IF Parser_match(then_branch.p, {"ELSE"}).ok
                THEN Parser_statement(Parser_match(then_branch.p, {"ELSE"}).p)
                ELSE POk(then_branch.p, NoneNode), LAMBDA else_branch :
        POk(else_branch.p, IfStmt(condition.node, then_branch.node, else_branch.node)))))))

Parser_while_statement(p) ==
    Parser_then(Parser_consume(p, "LEFT_PAREN", "Expect '(' after 'while'."), LAMBDA lp :
    Parser_then(Parser_expression(lp.p), LAMBDA condition :
    Parser_then(Parser_consume(condition.p, "RIGHT_PAREN", "Expect ')' after while condition."), LAMBDA rp :
    Parser_then(Parser_statement(rp.p), LAMBDA body :
        POk(body.p, WhileStmt(condition.node, body.node))))))

Parser_break_continue_statement(p) ==
    LET keyword == Parser_previous(p)
        stmt == IF keyword.token_type = "BREAK" THEN BreakStmt(keyword)
                ELSE IF keyword.token_type = "CONTINUE" THEN ContinueStmt(keyword)
                ELSE NoneNode
    IN  Parser_then(Parser_consume(p, "SEMICOLON", "Expect ';' after break/continue statement."), LAMBDA semi :
            POk(semi.p, stmt))

Parser_statement(p) ==
    LET t == Parser_peek(p).token_type
        m == Parser_match(p, {t})
    IN  CASE t = "FOR" -> Parser_for_statement(m.p)
          [] t = "IF" -> Parser_if_statement(m.p)
          [] t = "PRINT" -> Parser_print_statement(m.p)
          [] t = "RETURN" -> Parser_return_statement(m.p)
          [] t = "WHILE" -> Parser_while_statement(m.p)
          [] t \in {"BREAK", "CONTINUE"} -> Parser_break_continue_statement(m.p)
          [] t = "LEFT_BRACE" -> Parser_then(Parser_block(m.p), LAMBDA b : POk(b.p, BlockStmt(b.node)))
          [] OTHER -> Parser_expression_statement(p)

\* the try body of _declaration
Parser_declaration_try(p) ==
    CASE Parser_match(p, {"CLASS"}).ok -> Parser_class_declaration(Parser_match(p, {"CLASS"}).p)
      [] Parser_match(p, {"DEF"}).ok ->
            IF Parser_peek(Parser_match(p, {"DEF"}).p).token_type = "IDENTIFIER"
            THEN Parser_funtion_declaration(Parser_match(p, {"DEF"}).p, "function")
            ELSE Parser_then(Parser_function_expr(Parser_match(p, {"DEF"}).p), LAMBDA fe :
                     POk(fe.p, ExpressionStmt(fe.node)))
      [] Parser_match(p, {"VAR"}).ok -> Parser_var_declaration(Parser_match(p, {"VAR"}).p)
      [] OTHER -> Parser_statement(p)

\* the history of a recovery: the cursor and the token where ParserError was raised,
\* the cursor where _synchronize left it (p)
Parser_recovered(r, p) ==
    [p EXCEPT !.recoveries = Append(@, [at |-> r.p.current, token_type |-> Parser_peek(r.p).token_type,
                                        after |-> p.current])]

\* except ParserError: self._synchronize(); return None
Parser_declaration_except(r) ==
    IF r.err THEN POk(Parser_recovered(r, Parser_synchronize(r.p)), NoneNode) ELSE r

Parser_declaration(p) == Parser_declaration_except(Parser_declaration_try(p))

\* the call of the method named `method` with the arguments a
ParserDo(method, a) ==
    CASE method = "Parser_expression" -> Parser_expression(a[1])
      [] method = "Parser_assignment" -> Parser_assignment(a[1])
      [] method = "Parser_and" -> Parser_and(a[1])
      [] method = "Parser_equality" -> Parser_equality(a[1])
      [] method = "Parser_comparison" -> Parser_comparison(a[1])
      [] method = "Parser_term" -> Parser_term(a[1])
      [] method = "Parser_factor" -> Parser_factor(a[1])
      [] method = "Parser_unary" -> Parser_unary(a[1])
      [] method = "Parser_declaration" -> Parser_declaration(a[1])

---------------------------------------------------------------------------
(* Resolver (interpreter/resolver.py).  The resolver state r is the record *)
(* [scopes, current_function, current_class, locals, log]: scopes is the   *)
(* stack of dicts name -> bool, locals is Interpreter.locals (the          *)
(* side-table node id -> depth that Interpreter.resolve fills).            *)
(* A resolving operator returns [r, exc, token, message]; exc is "none",   *)
(* "ResolverError" or "Exception" (the builtin raised by _declare).        *)

ROk(r) == [r |-> r, exc |-> "none", token |-> NoneNode, message |-> ""]

ResolverError(r, token, message) == [r |-> r, exc |-> "ResolverError", token |-> token, message |-> message]

MaxOf(S) == CHOOSE x \in S : \A y \in S : y <= x

\* Interpreter.resolve
Interpreter_resolve(locals, expr, depth) == (expr.id :> depth) @@ locals

Resolver_begin_scope(r) == [r EXCEPT !.scopes = Append(@, <<>>)]

Resolver_end_scope(r) == [r EXCEPT !.scopes = SubSeq(@, 1, Len(@) - 1)]

Resolver_declare(r, name) ==
    IF Len(r.scopes) = 0 THEN ROk(r)
    ELSE IF name \in DOMAIN r.scopes[Len(r.scopes)]
         THEN [r |-> r, exc |-> "Exception", token |-> NoneNode,
               message |-> "Variable with name " \o name \o " already declared in this scope"]
         ELSE ROk([r EXCEPT !.scopes[Len(r.scopes)] = (name :> FALSE) @@ @])

Resolver_define(r, name) ==
    IF Len(r.scopes) = 0 THEN r
    ELSE [r EXCEPT !.scopes[Len(r.scopes)] = (name :> TRUE) @@ @]

Resolver_resolve_local(r, expr, name) ==
    LET hits == {i \in 1..Len(r.scopes) : name \in DOMAIN r.scopes[i]}
    IN  IF hits = {} THEN r
        ELSE [r EXCEPT !.locals = Interpreter_resolve(@, expr, Len(r.scopes) - MaxOf(hits))]

\* the for loop over function.params of _resolve_function
RECURSIVE Resolver_params_loop(_, _, _)
Resolver_params_loop(r, params, i) ==
    IF i > Len(params) THEN ROk(r)
    ELSE LET d == Resolver_declare(r, params[i].lexeme)
         IN  IF d.exc # "none" THEN d
             ELSE Resolver_params_loop(Resolver_define(d.r, params[i].lexeme), params, i + 1)

\* the rest of a method once the call that gave x has returned: nothing when
\* an exception propagates out of the call
Resolver_then(x, rest(_)) == IF x.exc # "none" THEN x ELSE rest(x)

RECURSIVE Resolver_resolve_stmt(_, _)

RECURSIVE Resolver_resolve_expr(_, _)

\* except ResolverError as e of resolve_statements: log and re-raise
Resolver_resolve_except(s) ==
    IF s.exc = "ResolverError"
    THEN [s EXCEPT !.r.log = Append(@, LogLine("ResolverError", s.token.line, s.message))]
    ELSE s

\* one pass of the for loop of resolve_statements
Resolver_resolve_one(r, statement) == Resolver_resolve_except(Resolver_resolve_stmt(r, statement))

RECURSIVE Resolver_statements_loop(_, _, _)
Resolver_statements_loop(r, stmts, i) ==
    IF i > Len(stmts) THEN ROk(r)
    ELSE Resolver_then(Resolver_resolve_one(r, stmts[i]), LAMBDA s :
             Resolver_statements_loop(s.r, stmts, i + 1))

Resolver_resolve_statements(r, stmts) == Resolver_statements_loop(r, stmts, 1)

\* a _resolve_function that leaves current_function as the body had it
Resolver_resolve_function_no_restore(r, function, type) ==
    Resolver_then(Resolver_params_loop(Resolver_begin_scope([r EXCEPT !.current_function = type]), function.params, 1),
                  LAMBDA ps :
    Resolver_then(Resolver_resolve_statements(ps.r, function.body), LAMBDA body :
        ROk(Resolver_end_scope(body.r))))

Resolver_resolve_function(r, function, type) ==
    Resolver_then(Resolver_params_loop(Resolver_begin_scope([r EXCEPT !.current_function = type]), function.params, 1),
                  LAMBDA ps :
    Resolver_then(Resolver_resolve_statements(ps.r, function.body), LAMBDA body :
        ROk([Resolver_end_scope(body.r) EXCEPT !.current_function = r.current_function])))

Resolver_visit_block_stmt(r, stmt) ==
    Resolver_then(Resolver_resolve_statements(Resolver_begin_scope(r), stmt.statements), LAMBDA b :
        ROk(Resolver_end_scope(b.r)))

Resolver_visit_var_stmt(r, stmt) ==
    Resolver_then(Resolver_declare(r, stmt.name.lexeme), LAMBDA d :
    Resolver_then(IF ~IsNone(stmt.initializer) THEN Resolver_resolve_expr(d.r, stmt.initializer) ELSE ROk(d.r),
                  LAMBDA i :
        ROk(Resolver_define(i.r, stmt.name.lexeme))))

Resolver_visit_variable(r, expr) ==
    IF /\ Len(r.scopes) > 0
       /\ expr.name.lexeme \in DOMAIN r.scopes[Len(r.scopes)]
       /\ r.scopes[Len(r.scopes)][expr.name.lexeme] = FALSE
    THEN ResolverError(r, expr.name, "Cannot read local variable in its own initializer")
    ELSE ROk(Resolver_resolve_local(r, expr, expr.name.lexeme))

Resolver_visit_assign(r, expr) ==
    Resolver_then(Resolver_resolve_expr(r, expr.value), LAMBDA v :
        ROk(Resolver_resolve_local(v.r, expr, expr.name.lexeme)))

Resolver_visit_function_stmt(r, stmt) ==
    Resolver_then(Resolver_declare(r, stmt.name.lexeme), LAMBDA d :
        Resolver_resolve_function(Resolver_define(d.r, stmt.name.lexeme), stmt, "FUNCTION"))

\* An anonymous function is resolved as a function body is (no name to declare).
Resolver_visit_function_expr(r, expr) == Resolver_resolve_function(r, expr, "FUNCTION")

\* The resolver does not enforce loop context.
Resolver_visit_break_stmt(r, stmt) == ROk(r)

Resolver_visit_continue_stmt(r, stmt) == ROk(r)

Resolver_visit_expression_stmt(r, stmt) == Resolver_resolve_expr(r, stmt.expression)

Resolver_visit_if_stmt(r, stmt) ==
    Resolver_then(Resolver_resolve_expr(r, stmt.condition), LAMBDA c :
    Resolver_then(Resolver_resolve_stmt(c.r, stmt.then_branch), LAMBDA t :
        IF ~IsNone(stmt.else_branch) THEN Resolver_resolve_stmt(t.r, stmt.else_branch) ELSE t))

Resolver_visit_print_stmt(r, stmt) == Resolver_resolve_expr(r, stmt.expression)

\* the history of a return statement visited: the function kind and the number of
\* scopes at that moment, whether it has a value, whether it was rejected
Resolver_return_visited(r, stmt, rejected) ==
    [r EXCEPT !.returns = Append(@, [current_function |-> r.current_function, scopes |-> Len(r.scopes),
                                     has_value |-> ~IsNone(stmt.value), rejected |-> rejected])]

Resolver_visit_return_stmt(r, stmt) ==
    CASE r.current_function = "NONE" ->
            ResolverError(Resolver_return_visited(r, stmt, TRUE), stmt.keyword, "Cannot return from top-level code")
      [] IsNone(stmt.value) -> ROk(Resolver_return_visited(r, stmt, FALSE))
      [] r.current_function = "INITIALIZER" ->
            ResolverError(Resolver_return_visited(r, stmt, TRUE), stmt.keyword, "Cannot return a value from an initializer")
      [] OTHER -> Resolver_resolve_expr(Resolver_return_visited(r, stmt, FALSE), stmt.value)

Resolver_visit_while_stmt(r, stmt) ==
    Resolver_then(Resolver_resolve_expr(r, stmt.condition), LAMBDA c :
        Resolver_resolve_stmt(c.r, stmt.body))

RECURSIVE Resolver_methods_loop(_, _, _)
\* the for loop over stmt.methods of visit_class_stmt
Resolver_methods_loop(r, methods, i) ==
    IF i > Len(methods) THEN ROk(r)
    ELSE Resolver_then(Resolver_resolve_function(r, methods[i],
                                                 IF methods[i].name.lexeme = "init" THEN "INITIALIZER" ELSE "METHOD"),
                       LAMBDA f :
             Resolver_methods_loop(f.r, methods, i + 1))

\* begin_scope and scopes[-1][name] = True
Resolver_scope_with(r, name) == [Resolver_begin_scope(r) EXCEPT !.scopes[Len(r.scopes) + 1] = (name :> TRUE) @@ @]

\* the history of a node that the class kind decides on: for `self` and `super` the
\* kind at the visit and whether the node was rejected, for a class declaration the
\* kind before it and the kind it leaves
Resolver_kind_visited(r, node, current_class, rejected) ==
    [r EXCEPT !.kinds = Append(@, [node |-> node, current_class |-> current_class, after |-> r.current_class,
                                   scopes |-> Len(r.scopes), rejected |-> rejected])]

\* an end of visit_class_stmt that leaves current_class as the class had it
Resolver_class_end_no_restore(r, stmt, enclosing_class) ==
    LET r4 == Resolver_end_scope(r)
        r5 == IF ~IsNone(stmt.superclass) THEN Resolver_end_scope(r4) ELSE r4
    IN  ROk(Resolver_kind_visited(r5, "ClassStmt", enclosing_class, FALSE))

\* the end of visit_class_stmt: end_scope, end_scope of "super", current_class restored
Resolver_class_end(r, stmt, enclosing_class) ==
    LET r4 == Resolver_end_scope(r)
        r5 == IF ~IsNone(stmt.superclass) THEN Resolver_end_scope(r4) ELSE r4
    IN  ROk(Resolver_kind_visited([r5 EXCEPT !.current_class = enclosing_class], "ClassStmt", enclosing_class, FALSE))

Resolver_visit_class_stmt(r, stmt) ==
    Resolver_then(Resolver_declare([r EXCEPT !.current_class = "CLASS"], stmt.name.lexeme), LAMBDA d :
        IF ~IsNone(stmt.superclass) /\ stmt.name.lexeme = stmt.superclass.name.lexeme
        THEN ResolverError(Resolver_define(d.r, stmt.name.lexeme), stmt.superclass.name, "A class cannot inherit from itself")
        ELSE
    Resolver_then(IF ~IsNone(stmt.superclass)
                  THEN Resolver_then(Resolver_resolve_expr([Resolver_define(d.r, stmt.name.lexeme) EXCEPT !.current_class = "SUBCLASS"],
                                                           stmt.superclass),
                                     LAMBDA sup : ROk(Resolver_scope_with(sup.r, "super")))
                  ELSE ROk(Resolver_define(d.r, stmt.name.lexeme)), LAMBDA s :
    Resolver_then(Resolver_methods_loop(Resolver_scope_with(s.r, "self"), stmt.methods, 1), LAMBDA m :
        Resolver_class_end(m.r, stmt, r.current_class))))

Resolver_visit_binary(r, expr) ==
    Resolver_then(Resolver_resolve_expr(r, expr.left), LAMBDA l : Resolver_resolve_expr(l.r, expr.right))

RECURSIVE Resolver_arguments_loop(_, _, _)
\* the for loop over expr.arguments of visit_call
Resolver_arguments_loop(r, arguments, i) ==
    IF i > Len(arguments) THEN ROk(r)
    ELSE Resolver_then(Resolver_resolve_expr(r, arguments[i]), LAMBDA a :
             Resolver_arguments_loop(a.r, arguments, i + 1))

Resolver_visit_call(r, expr) ==
    Resolver_then(Resolver_resolve_expr(r, expr.callee), LAMBDA c :
        Resolver_arguments_loop(c.r, expr.arguments, 1))

Resolver_visit_literal(r, expr) == ROk(r)

Resolver_visit_logical(r, expr) ==
    Resolver_then(Resolver_resolve_expr(r, expr.left), LAMBDA l : Resolver_resolve_expr(l.r, expr.right))

Resolver_visit_unary(r, expr) == Resolver_resolve_expr(r, expr.right)

Resolver_visit_get(r, expr) == Resolver_resolve_expr(r, expr.object)

Resolver_visit_set(r, expr) ==
    Resolver_then(Resolver_resolve_expr(r, expr.value), LAMBDA v : Resolver_resolve_expr(v.r, expr.object))

Resolver_visit_self(r, expr) ==
    IF r.current_class = "NONE"
    THEN ResolverError(Resolver_kind_visited(r, "Self", r.current_class, TRUE), expr.keyword,
                       "Cannot use 'self' outside of a class")
    ELSE ROk(Resolver_resolve_local(Resolver_kind_visited(r, "Self", r.current_class, FALSE), expr, expr.keyword.lexeme))

Resolver_visit_super(r, expr) ==
    CASE r.current_class = "NONE" ->
            ResolverError(Resolver_kind_visited(r, "Super", r.current_class, TRUE), expr.keyword,
                          "Cannot use 'super' outside of a class")
      [] r.current_class # "SUBCLASS" ->
            ResolverError(Resolver_kind_visited(r, "Super", r.current_class, TRUE), expr.keyword,
                          "Cannot use 'super' in a class with no superclass")
      [] OTHER -> ROk(Resolver_resolve_local(Resolver_kind_visited(r, "Super", r.current_class, FALSE), expr,
                                             expr.keyword.lexeme))

\* statement.accept(self): dispatch on the node's class
Resolver_resolve_stmt(r, stmt) ==
    CASE stmt.k = "BlockStmt" -> Resolver_visit_block_stmt(r, stmt)
      [] stmt.k = "VarStmt" -> Resolver_visit_var_stmt(r, stmt)
      [] stmt.k = "FunctionStmt" -> Resolver_visit_function_stmt(r, stmt)
      [] stmt.k = "ExpressionStmt" -> Resolver_visit_expression_stmt(r, stmt)
      [] stmt.k = "IfStmt" -> Resolver_visit_if_stmt(r, stmt)
      [] stmt.k = "PrintStmt" -> Resolver_visit_print_stmt(r, stmt)
      [] stmt.k = "ReturnStmt" -> Resolver_visit_return_stmt(r, stmt)
      [] stmt.k = "WhileStmt" -> Resolver_visit_while_stmt(r, stmt)
      [] stmt.k = "ClassStmt" -> Resolver_visit_class_stmt(r, stmt)
      [] stmt.k = "BreakStmt" -> Resolver_visit_break_stmt(r, stmt)
      [] stmt.k = "ContinueStmt" -> Resolver_visit_continue_stmt(r, stmt)

\* expression.accept(self)
Resolver_resolve_expr(r, expr) ==
    CASE expr.k = "Variable" -> Resolver_visit_variable(r, expr)
      [] expr.k = "Assign" -> Resolver_visit_assign(r, expr)
      [] expr.k = "Binary" -> Resolver_visit_binary(r, expr)
      [] expr.k = "Call" -> Resolver_visit_call(r, expr)
      [] expr.k = "Literal" -> Resolver_visit_literal(r, expr)
      [] expr.k = "Logical" -> Resolver_visit_logical(r, expr)
      [] expr.k = "Unary" -> Resolver_visit_unary(r, expr)
      [] expr.k = "Get" -> Resolver_visit_get(r, expr)
      [] expr.k = "SetExpr" -> Resolver_visit_set(r, expr)
      [] expr.k = "Self" -> Resolver_visit_self(r, expr)
      [] expr.k = "Super" -> Resolver_visit_super(r, expr)
      [] expr.k = "FunctionExpr" -> Resolver_visit_function_expr(r, expr)

---------------------------------------------------------------------------
(* Host values.  float arithmetic is exact arithmetic on fractions; bool   *)
(* is a subclass of int in the host, so float(True) is 1.0.                *)

RECURSIVE GCD(_, _)
GCD(a, b) == IF b = 0 THEN a ELSE GCD(b, a % b)

Abs(n) == IF n < 0 THEN -n ELSE n

Frac(n, d) ==
    LET g == GCD(Abs(n), Abs(d))
        sgn == IF d < 0 THEN -1 ELSE 1
    IN  <<(sgn * n) \div g, (sgn * d) \div g>>

\* isinstance(x, (int, float))
IsNumber(x) == x.t \in {"num", "bool"}

\* float(x) for x a float or a bool
ToFloat(x) == IF x.t = "bool" THEN (IF x.v THEN <<1, 1>> ELSE <<0, 1>>) ELSE x.v

FloatAdd(a, b) == Frac(a[1] * b[2] + b[1] * a[2], a[2] * b[2])
FloatSub(a, b) == Frac(a[1] * b[2] - b[1] * a[2], a[2] * b[2])
FloatMul(a, b) == Frac(a[1] * b[1], a[2] * b[2])
FloatDiv(a, b) == Frac(a[1] * b[2], a[2] * b[1])
FloatLess(a, b) == a[1] * b[2] < b[1] * a[2]

Digits == <<"0", "1", "2", "3", "4", "5", "6", "7", "8", "9">>

\* str(n) for an int n >= 0
RECURSIVE NatStr(_)
NatStr(n) == IF n < 10 THEN Digits[n + 1] ELSE NatStr(n \div 10) \o Digits[(n % 10) + 1]

\* the decimal digits of rem/d after the point, at most k of them
RECURSIVE FracDigits(_, _, _)
FracDigits(rem, d, k) ==
    IF rem = 0 \/ k = 0 THEN ""
    ELSE Digits[((rem * 10) \div d) + 1] \o FracDigits((rem * 10) % d, d, k - 1)

\* str(x) for a float x: always with a fractional part, "3.0" for 3
FloatStr(q) ==
    LET n == Abs(q[1])
        whole == NatStr(n \div q[2])
        rem == n % q[2]
    IN  (IF q[1] < 0 THEN "-" ELSE "") \o whole \o "." \o (IF rem = 0 THEN "0" ELSE FracDigits(rem, q[2], 16))

---------------------------------------------------------------------------
(* The interpreter state s and the objects it allocates.                   *)
(*   envs[i]    Environment: values (dict name -> value), enclosing (0 is  *)
(*              None)                                                      *)
(*   fns[i]     PylangFunction: declaration, closure, is_initializer       *)
(*   classes[i] PylangClass: name, superclass (0 is None), methods         *)
(*   insts[i]   PylangInstance: klass, fields                              *)
(* A reference is the index of the object: two references are the same     *)
(* object exactly when the indices are equal.                              *)
(* An evaluating operator returns [s, sig, value, token, message]; sig is  *)
(* "ok" or the class of the exception that propagates out of it: Return,   *)
(* Break, Continue, InterpreterRuntimeError, RecursionError,               *)
(* AttributeError; "Cutoff" ends a run that exceeds MaxIter.               *)
(* s.trace and s.loops are history only: no operator reads them to decide  *)
(* what the interpreter does.                                              *)

XOk(s, value) == [s |-> s, sig |-> "ok", value |-> value, token |-> NoneNode, message |-> ""]

XRaise(s, sig, value, token, message) == [s |-> s, sig |-> sig, value |-> value, token |-> token, message |-> message]

RuntimeError(s, token, message) == XRaise(s, "InterpreterRuntimeError", Nil, token, message)

Emit(s, event) == [s EXCEPT !.trace = Append(@, event)]

\* Environment.__init__
Environment_new(s, enclosing_scope) == [s EXCEPT !.envs = Append(@, [values |-> <<>>, enclosing |-> enclosing_scope])]

\* the Environment just allocated by Environment_new
NewestEnv(s) == Len(s.envs)

Environment_define(s, env, name, value) == [s EXCEPT !.envs[env].values = (name :> value) @@ @]

\* an assign that defines the name in the outermost environment when no environment has it
RECURSIVE Environment_assign_or_define(_, _, _, _)
Environment_assign_or_define(s, env, name, value) ==
    IF name.lexeme \in DOMAIN s.envs[env].values \/ s.envs[env].enclosing = 0
    THEN XOk([s EXCEPT !.envs[env].values = (name.lexeme :> value) @@ @], Nil)
    ELSE Environment_assign_or_define(s, s.envs[env].enclosing, name, value)

RECURSIVE Environment_assign(_, _, _, _)
Environment_assign(s, env, name, value) ==
    IF name.lexeme \in DOMAIN s.envs[env].values
    THEN XOk([s EXCEPT !.envs[env].values[name.lexeme] = value], Nil)
    ELSE IF s.envs[env].enclosing # 0
    THEN Environment_assign(s, s.envs[env].enclosing, name, value)
    ELSE RuntimeError(s, name, "Undefined variable '" \o name.lexeme \o "'.")

RECURSIVE Environment_get(_, _, _)
Environment_get(s, env, name) ==
    IF name.lexeme \in DOMAIN s.envs[env].values
    THEN XOk(s, s.envs[env].values[name.lexeme])
    ELSE IF s.envs[env].enclosing # 0
    THEN Environment_get(s, s.envs[env].enclosing, name)
    ELSE RuntimeError(s, name, "Undefined variable '" \o name.lexeme \o "'.")

\* 0 (None) when the walk reads .enclosing of the outermost environment
RECURSIVE Environment_ancestor(_, _, _)
Environment_ancestor(s, env, distance) ==
    IF distance <= 0 \/ env = 0 THEN env
    ELSE Environment_ancestor(s, s.envs[env].enclosing, distance - 1)

\* dict.get: None for a name the ancestor does not hold
Environment_get_at(s, env, distance, name) ==
    LET a == Environment_ancestor(s, env, distance)
    IN  IF a = 0 THEN XRaise(s, "AttributeError", Nil, NoneNode, "'NoneType' object has no attribute 'values'")
        ELSE IF name \in DOMAIN s.envs[a].values THEN XOk(s, s.envs[a].values[name])
        ELSE XOk(s, Nil)

\* an assignment that lands in the environment of the call and not in the captured one
Environment_assign_at_local(s, env, distance, name, value) ==
    XOk([s EXCEPT !.envs[env].values = (name.lexeme :> value) @@ @], Nil)

Environment_assign_at(s, env, distance, name, value) ==
    LET a == Environment_ancestor(s, env, distance)
    IN  IF a = 0 THEN XRaise(s, "AttributeError", Nil, NoneNode, "'NoneType' object has no attribute 'values'")
        ELSE XOk([s EXCEPT !.envs[a].values = (name.lexeme :> value) @@ @], Nil)

---------------------------------------------------------------------------
(* Callables and instances (pylang_function.py, pylang_class.py,           *)
(* pylang_instance.py) and the Interpreter (interpreter/interpreter.py).   *)

\* PylangFunction.__init__: the new function object is fns[Len(fns)]
PylangFunction_new(s, declaration, closure, is_initializer) ==
    [s EXCEPT !.fns = Append(@, [declaration |-> declaration, closure |-> closure, is_initializer |-> is_initializer])]

PylangFunction_arity(s, f) == Len(s.fns[f].declaration.params)

\* returns the state with the bound function allocated last
PylangFunction_bind(s, f, instance) ==
    LET s1 == Environment_new(s, s.fns[f].closure)
        environment == NewestEnv(s1)
        s2 == Environment_define(s1, environment, "self", instance)
    IN  PylangFunction_new(s2, s.fns[f].declaration, environment, s.fns[f].is_initializer)

\* 0 is None
RECURSIVE PylangClass_find_method(_, _, _)
PylangClass_find_method(s, c, name) ==
    IF name \in DOMAIN s.classes[c].methods THEN s.classes[c].methods[name]
    ELSE IF s.classes[c].superclass # 0 THEN PylangClass_find_method(s, s.classes[c].superclass, name)
    ELSE 0

\* a class that takes no arguments whatever its initializer declares
PylangClass_arity_zero(s, c) == 0

PylangClass_arity(s, c) ==
    LET initializer == PylangClass_find_method(s, c, "init")
    IN  IF initializer # 0 THEN PylangFunction_arity(s, initializer) ELSE 0

\* the rest of a method once the call that gave x has returned: nothing when
\* an exception propagates out of the call
Interpreter_then(x, rest(_)) == IF x.sig # "ok" THEN x ELSE rest(x)

RECURSIVE Interpreter_evaluate(_, _)

RECURSIVE Interpreter_execute(_, _)

\* the history of a property read: the instance and the name, the fields it had and
\* the functions there were, what the read gave (x)
PylangInstance_get_exit(s, i, name, x) ==
    [x EXCEPT !.s = Emit(x.s, [e |-> "get", instance |-> i, name |-> name.lexeme, fields |-> s.insts[i].fields,
                               fns |-> Len(s.fns), result |-> x.sig, value |-> x.value])]

\* a get that looks for a method before it looks at the fields
PylangInstance_get_method_first(s, i, name) ==
    LET method == PylangClass_find_method(s, s.insts[i].klass, name.lexeme)
    IN  PylangInstance_get_exit(s, i, name,
            IF method # 0
            THEN LET b == PylangFunction_bind(s, method, InstRef(i)) IN XOk(b, FnRef(Len(b.fns)))
            ELSE IF name.lexeme \in DOMAIN s.insts[i].fields THEN XOk(s, s.insts[i].fields[name.lexeme])
            ELSE RuntimeError(s, name, "Undefined property '" \o name.lexeme \o "'"))

PylangInstance_get(s, i, name) ==
    PylangInstance_get_exit(s, i, name,
        IF name.lexeme \in DOMAIN s.insts[i].fields THEN XOk(s, s.insts[i].fields[name.lexeme])
        ELSE LET method == PylangClass_find_method(s, s.insts[i].klass, name.lexeme)
             IN  IF method # 0
                 THEN LET b == PylangFunction_bind(s, method, InstRef(i)) IN XOk(b, FnRef(Len(b.fns)))
                 ELSE RuntimeError(s, name, "Undefined property '" \o name.lexeme \o "'"))

\* the write itself, and the history of it: the instance, the name and the value
PylangInstance_set(s, i, name, value) ==
    Emit([s EXCEPT !.insts[i].fields = (name.lexeme :> value) @@ @],
         [e |-> "set", instance |-> i, name |-> name.lexeme, value |-> value])

RECURSIVE PylangFunction_params_loop(_, _, _, _, _)
\* the for loop over declaration.params of PylangFunction.call
PylangFunction_params_loop(s, environment, params, arguments, i) ==
    IF i > Len(params) THEN s
    ELSE PylangFunction_params_loop(Environment_define(s, environment, params[i].lexeme, arguments[i]),
                                    environment, params, arguments, i + 1)

\* str(obj) of the host
PyStr(s, obj) ==
    CASE obj.t = "nil" -> "None"
      [] obj.t = "bool" -> IF obj.v THEN "True" ELSE "False"
      [] obj.t = "num" -> FloatStr(obj.v)
      [] obj.t = "str" -> obj.v
      [] obj.t = "fn" -> "<fn>" \o s.fns[obj.v].declaration.name.lexeme
      [] obj.t = "class" -> s.classes[obj.v].name
      [] obj.t = "inst" -> s.classes[s.insts[obj.v].klass].name \o " instance"
      [] obj.t = "clock" -> "<native fn>clock"

\* PylangFunction.__str__ reads declaration.name, which an anonymous function has not
StrRaises(s, obj) == obj.t = "fn" /\ s.fns[obj.v].declaration.k = "FunctionExpr"

Interpreter_is_truthy(obj) ==
    IF obj.t = "nil" THEN FALSE
    ELSE IF obj.t = "bool" THEN obj.v
    ELSE TRUE

\* the host's a == b: numbers and bools compare by numeric value, strings by
\* value, everything else by identity
PyEq(a, b) ==
    IF IsNumber(a) /\ IsNumber(b) THEN ToFloat(a) = ToFloat(b)
    ELSE SameValue(a, b)

Interpreter_is_equal(a, b) ==
    IF a.t = "nil" /\ b.t = "nil" THEN TRUE
    ELSE IF a.t = "nil" THEN FALSE
    ELSE PyEq(a, b)

Interpreter_stringify(s, obj) ==
    IF obj.t = "nil" THEN "nil"
    ELSE IF obj.t = "num"
         THEN LET q == obj.v
              IN  IF q[2] = 1 THEN (IF q[1] < 0 THEN "-" ELSE "") \o NatStr(Abs(q[1])) ELSE FloatStr(q)
    ELSE PyStr(s, obj)

Interpreter_check_number_operand(s, operator, operand) ==
    IF IsNumber(operand) THEN XOk(s, Nil)
    ELSE RuntimeError(s, operator, "Operands must be numbers for operator " \o operator.lexeme)

Interpreter_check_number_operands(s, operator, left, right) ==
    IF IsNumber(left) /\ IsNumber(right) THEN XOk(s, Nil)
    ELSE RuntimeError(s, operator, "Operands must be numbers for operator " \o operator.lexeme)

\* dynamic scoping: the name is looked up along the chain of the environment of the call
Interpreter_look_up_variable_dynamic(s, name, expr) == Environment_get(s, s.environment, name)

\* the history of a name read or assigned: the node and the name, whether the resolver
\* recorded a depth for the node and which, the environment the access goes to, whether
\* its local map had the name and with what value, whether globals had the name, whether
\* the value maps are those of s, and what the access gave (x)
Interpreter_access_exit(s, kind, name, expr, x) ==
    \* the environment the access goes to: the ancestor at the recorded depth (0 when the
    \* walk runs off the chain), globals for a node without a depth
    LET target == IF expr.id \in DOMAIN s.locals
                  THEN Environment_ancestor(s, s.environment, s.locals[expr.id])
                  ELSE s.globals
        holds == target # 0 /\ name.lexeme \in DOMAIN s.envs[target].values
    IN
    [x EXCEPT !.s = Emit(x.s, [e |-> kind, name |-> name.lexeme, node |-> expr.k,
                               resolved |-> expr.id \in DOMAIN s.locals,
                               depth |-> IF expr.id \in DOMAIN s.locals THEN s.locals[expr.id] ELSE -1,
                               target |-> target, current |-> s.environment, holds |-> holds,
                               bound |-> IF holds THEN s.envs[target].values[name.lexeme] ELSE Nil,
                               in_globals |-> name.lexeme \in DOMAIN s.envs[s.globals].values,
                               same |-> x.s.envs = s.envs,
                               result |-> x.sig, value |-> x.value, message |-> x.message])]

Interpreter_look_up_variable(s, name, expr) ==
    Interpreter_access_exit(s, "read", name, expr,
        IF expr.id \in DOMAIN s.locals
        THEN Environment_get_at(s, s.environment, s.locals[expr.id], name.lexeme)
        ELSE Environment_get(s, s.globals, name))

Interpreter_visit_literal(s, expr) == XOk(s, expr.value)

Interpreter_visit_variable(s, expr) == Interpreter_look_up_variable(s, expr.name, expr)

Interpreter_visit_self(s, expr) == Interpreter_look_up_variable(s, expr.keyword, expr)

RECURSIVE Interpreter_block_loop(_, _, _)
\* the for loop of _execute_block
Interpreter_block_loop(s, stmts, i) ==
    IF i > Len(stmts) THEN XOk(s, Nil)
    ELSE Interpreter_then(Interpreter_execute(s, stmts[i]), LAMBDA r :
             Interpreter_block_loop(r.s, stmts, i + 1))

\* self.environment = previous on a normal exit only
Interpreter_restore_on_normal_exit(r, previous) ==
    IF r.sig = "ok" THEN [r EXCEPT !.s.environment = previous] ELSE r

\* _execute_block without its finally clause: the pointer is restored on a normal exit only
Interpreter_execute_block_without_finally(s, stmts, environment) ==
    Interpreter_restore_on_normal_exit(Interpreter_block_loop([s EXCEPT !.environment = environment], stmts, 1),
                                       s.environment)

\* try: ... finally: self.environment = previous
Interpreter_execute_block(s, stmts, environment) ==
    [Interpreter_block_loop([s EXCEPT !.environment = environment], stmts, 1) EXCEPT !.s.environment = s.environment]

\* Interpreter.execute_block, the public wrapper
Interpreter_execute_block_public(s, stmts, environment) == Interpreter_execute_block(s, stmts, environment)

\* Environment(enclosing_scope=self.closure) with the parameters defined, one call deeper
PylangFunction_enter(s, f, arguments) ==
    LET s1 == Environment_new(s, s.fns[f].closure)
        s2 == PylangFunction_params_loop(s1, NewestEnv(s1), s.fns[f].declaration.params, arguments, 1)
    IN  [s2 EXCEPT !.depth = @ + 1, !.loops = Append(@, 0)]

\* the end of a call that does not look at is_initializer
PylangFunction_exit_not_initializer(s, f, b) ==
    LET s4 == [b.s EXCEPT !.depth = s.depth, !.loops = s.loops]
    IN  CASE b.sig = "Return" -> XOk(s4, b.value)
          [] b.sig = "ok" -> XOk(s4, Nil)
          [] OTHER -> [b EXCEPT !.s = s4]

\* the end of PylangFunction.call: except Return, and the value returned; b is
\* what execute_block gave, s the state at the call
PylangFunction_exit(s, f, b) ==
    LET s4 == [b.s EXCEPT !.depth = s.depth, !.loops = s.loops]
    IN  CASE b.sig \in {"Return", "ok"} /\ s.fns[f].is_initializer -> Environment_get_at(s4, s.fns[f].closure, 0, "self")
          [] b.sig = "Return" -> XOk(s4, b.value)
          [] b.sig = "ok" -> XOk(s4, Nil)
          [] OTHER -> [b EXCEPT !.s = s4]

\* the history of a call ended: the environment before and after, how the body
\* was left, what the call gave, the `self` of the closure, the lines printed by then
PylangFunction_call_exit(s, f, b) ==
    LET r == PylangFunction_exit(s, f, b)
    IN  [r EXCEPT !.s = Emit(r.s, [e |-> "call_exit", before |-> s.environment, after |-> b.s.environment, sig |-> b.sig,
                                   depth |-> s.depth + 1, is_initializer |-> s.fns[f].is_initializer,
                                   self |-> Environment_get_at(s, s.fns[f].closure, 0, "self").value,
                                   result |-> r.sig, value |-> r.value, nout |-> Len(b.s.out)])]

PylangFunction_call(s, f, arguments) ==
    IF s.depth >= MaxCallDepth
    THEN XRaise(s, "RecursionError", Nil, NoneNode, "maximum recursion depth exceeded")
    ELSE LET s3 == PylangFunction_enter(s, f, arguments)
         IN  PylangFunction_call_exit(s, f, Interpreter_execute_block_public(s3, s.fns[f].declaration.body, NewestEnv(s3)))

\* instance = PylangInstance(self): the new instance is insts[Len(insts)]
PylangInstance_new(s, c) == [s EXCEPT !.insts = Append(@, [klass |-> c, fields |-> <<>>])]

\* the history of a class called: the instances there were, the one constructed, what the call gave
PylangClass_call_exit(s, instance, r) ==
    [r EXCEPT !.s = Emit(r.s, [e |-> "class_call", insts |-> Len(s.insts), instance |-> instance,
                               result |-> r.sig, value |-> r.value])]

PylangClass_call(s, c, arguments) ==
    LET s1 == PylangInstance_new(s, c)
        instance == InstRef(Len(s1.insts))
        initializer == PylangClass_find_method(s1, c, "init")
        b == PylangFunction_bind(s1, initializer, instance)
    IN  IF initializer # 0
        THEN PylangClass_call_exit(s, instance,
                 Interpreter_then(PylangFunction_call(b, Len(b.fns), arguments), LAMBDA r : XOk(r.s, instance)))
        ELSE PylangClass_call_exit(s, instance, XOk(s1, instance))

Interpreter_visit_assign(s, expr) ==
    Interpreter_then(Interpreter_evaluate(s, expr.value), LAMBDA value :
    Interpreter_then(Interpreter_access_exit(value.s, "assign", expr.name, expr,
                         IF expr.id \in DOMAIN value.s.locals
                         THEN Environment_assign_at(value.s, value.s.environment, value.s.locals[expr.id], expr.name,
                                                    value.value)
                         ELSE Environment_assign(value.s, value.s.globals, expr.name, value.value)), LAMBDA a :
        XOk(a.s, value.value)))

\* the history of an operator applied: the operator, the operand values, what it gave (x)
Interpreter_operator_exit(operator, operands, x) ==
    [x EXCEPT !.s = Emit(x.s, [e |-> "operator", arity |-> Len(operands), op |-> operator.token_type, operands |-> operands,
                               result |-> x.sig, value |-> x.value])]

\* the branches of visit_unary once the operand is evaluated
Interpreter_unary_apply(expr, right) ==
    CASE expr.operator.token_type = "MINUS" ->
            Interpreter_then(Interpreter_check_number_operand(right.s, expr.operator, right.value), LAMBDA c :
                XOk(right.s, [t |-> "num", v |-> FloatSub(<<0, 1>>, ToFloat(right.value))]))
      [] expr.operator.token_type = "BANG" -> XOk(right.s, Bool(~Interpreter_is_truthy(right.value)))
      [] OTHER -> XOk(right.s, Nil)

Interpreter_visit_unary(s, expr) ==
    Interpreter_then(Interpreter_evaluate(s, expr.right), LAMBDA right :
        Interpreter_operator_exit(expr.operator, <<right.value>>, Interpreter_unary_apply(expr, right)))

Interpreter_visit_function_expr(s, expr) ==
    LET s1 == PylangFunction_new(s, expr, s.environment, FALSE)
    IN  XOk(s1, FnRef(Len(s1.fns)))

\* the history of the right operand of `and`/`or` evaluated: what it gave (x)
Interpreter_logical_right(x) ==
    [x EXCEPT !.s = Emit(x.s, [e |-> "logical_right", result |-> x.sig, value |-> x.value])]

\* the history of `and`/`or`: the operator, the left value and the events there were once
\* it was evaluated, whether the state is still that one, what the expression gave (x)
Interpreter_logical_exit(expr, left, x) ==
    [x EXCEPT !.s = Emit(x.s, [e |-> "logical", op |-> expr.operator.token_type, left |-> left.value,
                               events |-> Len(left.s.trace), same |-> x.s = left.s,
                               result |-> x.sig, value |-> x.value])]

\* `and`/`or` that evaluate both operands before they choose
Interpreter_logical_apply_eager(expr, left) ==
    LET right == Interpreter_logical_right(Interpreter_evaluate(left.s, expr.right))
    IN  IF right.sig # "ok" THEN right
        ELSE IF expr.operator.token_type = "OR"
        THEN IF Interpreter_is_truthy(left.value) THEN [right EXCEPT !.value = left.value] ELSE right
        ELSE IF ~Interpreter_is_truthy(left.value) THEN [right EXCEPT !.value = left.value] ELSE right

\* the branches of visit_logical once the left operand is evaluated
Interpreter_logical_apply(expr, left) ==
    IF expr.operator.token_type = "OR"
    THEN IF Interpreter_is_truthy(left.value) THEN left
         ELSE Interpreter_logical_right(Interpreter_evaluate(left.s, expr.right))
    ELSE IF ~Interpreter_is_truthy(left.value) THEN left
         ELSE Interpreter_logical_right(Interpreter_evaluate(left.s, expr.right))

Interpreter_visit_logical(s, expr) ==
    Interpreter_then(Interpreter_evaluate(s, expr.left), LAMBDA left :
        Interpreter_logical_exit(expr, left, Interpreter_logical_apply(expr, left)))

Interpreter_visit_get(s, expr) ==
    Interpreter_then(Interpreter_evaluate(s, expr.object), LAMBDA obj :
        IF obj.value.t = "inst" THEN PylangInstance_get(obj.s, obj.value.v, expr.name)
        ELSE RuntimeError(obj.s, expr.name, "Only instances have properties."))

Interpreter_visit_set(s, expr) ==
    Interpreter_then(Interpreter_evaluate(s, expr.object), LAMBDA obj :
        IF obj.value.t # "inst" THEN RuntimeError(obj.s, expr.name, "Only instances have fields.")
        ELSE Interpreter_then(Interpreter_evaluate(obj.s, expr.value), LAMBDA value :
                 XOk(PylangInstance_set(value.s, obj.value.v, expr.name, value.value), value.value)))

\* the arithmetic and comparison branches of visit_binary that demand two numbers
Interpreter_binary_numeric(s, operator, left, right) ==
    LET c == Interpreter_check_number_operands(s, operator, left, right)
        l == ToFloat(left)
        r == ToFloat(right)
        t == operator.token_type
    IN  IF c.sig # "ok" THEN c
        ELSE IF t = "MINUS" THEN XOk(s, [t |-> "num", v |-> FloatSub(l, r)])
        ELSE IF t = "STAR" THEN XOk(s, [t |-> "num", v |-> FloatMul(l, r)])
        ELSE IF t = "SLASH"
             THEN IF r[1] = 0 THEN RuntimeError(s, operator, "Division by zero is not allowed.")
                  ELSE XOk(s, [t |-> "num", v |-> FloatDiv(l, r)])
        ELSE IF t = "GREATER" THEN XOk(s, Bool(FloatLess(r, l)))
        ELSE IF t = "GREATER_EQUAL" THEN XOk(s, Bool(~FloatLess(l, r)))
        ELSE IF t = "LESS" THEN XOk(s, Bool(FloatLess(l, r)))
        ELSE XOk(s, Bool(~FloatLess(r, l)))

\* the branches of visit_binary once both operands are evaluated
Interpreter_binary_apply(s1, expr, l, r) ==
    LET t == expr.operator.token_type
    IN  IF t = "PLUS"
        THEN IF l.t = "str" /\ r.t = "str" THEN XOk(s1, Str(l.v \o r.v))
             ELSE IF l.t = "str" \/ r.t = "str"
             THEN IF StrRaises(s1, l) \/ StrRaises(s1, r)
                  THEN XRaise(s1, "AttributeError", Nil, NoneNode, "'FunctionExpr' object has no attribute 'name'")
                  ELSE XOk(s1, Str(PyStr(s1, l) \o PyStr(s1, r)))
             ELSE IF IsNumber(l) /\ IsNumber(r) THEN XOk(s1, [t |-> "num", v |-> FloatAdd(ToFloat(l), ToFloat(r))])
             ELSE LET c == Interpreter_check_number_operands(s1, expr.operator, l, r)
                  IN  IF c.sig # "ok" THEN c ELSE XOk(s1, Nil)
        ELSE IF t \in {"MINUS", "STAR", "SLASH", "GREATER", "GREATER_EQUAL", "LESS", "LESS_EQUAL"}
        THEN Interpreter_binary_numeric(s1, expr.operator, l, r)
        ELSE IF t = "BANG_EQUAL" THEN XOk(s1, Bool(~Interpreter_is_equal(l, r)))
        ELSE IF t = "EQUAL_EQUAL" THEN XOk(s1, Bool(Interpreter_is_equal(l, r)))
        ELSE XOk(s1, Nil)

Interpreter_visit_binary(s, expr) ==
    Interpreter_then(Interpreter_evaluate(s, expr.left), LAMBDA left :
    Interpreter_then(Interpreter_evaluate(left.s, expr.right), LAMBDA right :
        Interpreter_operator_exit(expr.operator, <<left.value, right.value>>,
                                  Interpreter_binary_apply(right.s, expr, left.value, right.value))))

RECURSIVE Interpreter_arguments_loop(_, _, _, _)
\* the list comprehension of visit_call; value is the list of argument values
Interpreter_arguments_loop(s, arguments, i, values) ==
    IF i > Len(arguments) THEN XOk(s, values)
    ELSE Interpreter_then(Interpreter_evaluate(s, arguments[i]), LAMBDA a :
             Interpreter_arguments_loop(a.s, arguments, i + 1, Append(values, a.value)))

\* isinstance(callee, Callable)
IsCallable(v) == v.t \in {"fn", "class", "clock"}

\* callee.arity()
Callable_arity(s, callee) ==
    CASE callee.t = "fn" -> PylangFunction_arity(s, callee.v)
      [] callee.t = "class" -> PylangClass_arity(s, callee.v)
      [] callee.t = "clock" -> 0

\* callee.call(self, arguments); the clock reads the host's time, s.now
Callable_call(s, callee, arguments) ==
    CASE callee.t = "fn" -> PylangFunction_call(s, callee.v, arguments)
      [] callee.t = "class" -> PylangClass_call(s, callee.v, arguments)
      [] callee.t = "clock" -> XOk(s, Num(s.now))

\* the history of a call expression: the callee and the arguments, the lines printed,
\* the instances and the events there were once they were evaluated (s), and the same
\* once the call was over, with what it gave (x)
Interpreter_call_exit(s, callee, arguments, x) ==
    [x EXCEPT !.s = Emit(x.s, [e |-> "call", callee |-> callee, arguments |-> arguments,
                               nout |-> Len(s.out), insts |-> Len(s.insts), events |-> Len(s.trace),
                               nout_after |-> Len(x.s.out), insts_after |-> Len(x.s.insts), events_after |-> Len(x.s.trace),
                               result |-> x.sig, message |-> x.message])]

Interpreter_visit_call(s, expr) ==
    Interpreter_then(Interpreter_evaluate(s, expr.callee), LAMBDA callee :
    Interpreter_then(Interpreter_arguments_loop(callee.s, expr.arguments, 1, <<>>), LAMBDA arguments :
        Interpreter_call_exit(arguments.s, callee.value, arguments.value,
            CASE ~IsCallable(callee.value) ->
                    RuntimeError(arguments.s, expr.paren, "Can only call functions and classes.")
              [] Len(arguments.value) # Callable_arity(arguments.s, callee.value) ->
                    RuntimeError(arguments.s, expr.paren,
                                 "Expected " \o NatStr(Callable_arity(arguments.s, callee.value))
                                 \o " arguments but got " \o NatStr(Len(arguments.value)) \o ".")
              [] OTHER -> Callable_call(arguments.s, callee.value, arguments.value))))

Interpreter_visit_super(before, expr) ==
    LET distance == before.locals[expr.id]
        superclass == Interpreter_access_exit(before, "read", expr.keyword, expr,
                          Environment_get_at(before, before.environment, distance, "super"))
        s == superclass.s
    IN  IF superclass.sig # "ok" THEN superclass ELSE
    LET obj == Environment_get_at(s, s.environment, distance - 1, "this")
    IN  IF obj.sig # "ok" THEN obj
        ELSE IF superclass.value.t # "class"
        THEN XRaise(s, "AttributeError", Nil, NoneNode, "'NoneType' object has no attribute 'find_method'")
        ELSE
    LET method == PylangClass_find_method(s, superclass.value.v, expr.method.lexeme)
        self == Environment_get_at(s, s.environment, distance - 1, "self")
    IN  IF method = 0
        THEN RuntimeError(s, expr.method, "Undefined property '" \o expr.method.lexeme \o "'.")
        ELSE LET b == PylangFunction_bind(s, method, obj.value)
             IN  XOk(Emit(b, [e |-> "super", obj |-> obj.value, self |-> self.value]), FnRef(Len(b.fns)))

\* expr.accept(self): dispatch on the node's class
Interpreter_evaluate(s, expr) ==
    CASE expr.k = "Literal" -> Interpreter_visit_literal(s, expr)
      [] expr.k = "Variable" -> Interpreter_visit_variable(s, expr)
      [] expr.k = "Assign" -> Interpreter_visit_assign(s, expr)
      [] expr.k = "Unary" -> Interpreter_visit_unary(s, expr)
      [] expr.k = "Binary" -> Interpreter_visit_binary(s, expr)
      [] expr.k = "Logical" -> Interpreter_visit_logical(s, expr)
      [] expr.k = "Call" -> Interpreter_visit_call(s, expr)
      [] expr.k = "Get" -> Interpreter_visit_get(s, expr)
      [] expr.k = "SetExpr" -> Interpreter_visit_set(s, expr)
      [] expr.k = "Self" -> Interpreter_visit_self(s, expr)
      [] expr.k = "Super" -> Interpreter_visit_super(s, expr)
      [] expr.k = "FunctionExpr" -> Interpreter_visit_function_expr(s, expr)

\* the history of a block left: the environment before and after, and how it was left
Interpreter_block_exit(s, b) ==
    [b EXCEPT !.s = Emit(b.s, [e |-> "block_exit", before |-> s.environment, after |-> b.s.environment, sig |-> b.sig])]

Interpreter_visit_block_stmt(s, stmt) ==
    LET s1 == Environment_new(s, s.environment)
    IN  Interpreter_block_exit(s, Interpreter_execute_block(s1, stmt.statements, NewestEnv(s1)))

Interpreter_visit_var_stmt(s, stmt) ==
    Interpreter_then(IF ~IsNone(stmt.initializer) THEN Interpreter_evaluate(s, stmt.initializer) ELSE XOk(s, Nil),
                     LAMBDA value :
        XOk(Environment_define(value.s, value.s.environment, stmt.name.lexeme, value.value), Nil))

Interpreter_visit_expression_stmt(s, stmt) ==
    Interpreter_then(Interpreter_evaluate(s, stmt.expression), LAMBDA r : XOk(r.s, Nil))

Interpreter_visit_if_stmt(s, stmt) ==
    Interpreter_then(Interpreter_evaluate(s, stmt.condition), LAMBDA c :
        CASE Interpreter_is_truthy(c.value) -> Interpreter_execute(c.s, stmt.then_branch)
          [] ~IsNone(stmt.else_branch) -> Interpreter_execute(c.s, stmt.else_branch)
          [] OTHER -> XOk(c.s, Nil))

Interpreter_visit_print_stmt(s, stmt) ==
    Interpreter_then(Interpreter_evaluate(s, stmt.expression), LAMBDA value :
        IF StrRaises(value.s, value.value)
        THEN XRaise(value.s, "AttributeError", Nil, NoneNode, "'FunctionExpr' object has no attribute 'name'")
        ELSE XOk([value.s EXCEPT !.out = Append(@, LogLine("print", 0, Interpreter_stringify(value.s, value.value)))], Nil))

RECURSIVE Interpreter_methods_loop(_, _, _, _)
\* the for loop over stmt.methods of visit_class_stmt; methods is the dict being built
Interpreter_methods_loop(s, stmts, i, methods) ==
    IF i > Len(stmts) THEN [s |-> s, methods |-> methods]
    ELSE LET s1 == PylangFunction_new(s, stmts[i], s.environment, stmts[i].name.lexeme = "init")
         IN  Interpreter_methods_loop(s1, stmts, i + 1, (stmts[i].name.lexeme :> Len(s1.fns)) @@ methods)

\* a class declaration that cuts its superclass off from that class's own superclass
Interpreter_class_define_reparent(stmt, sup) ==
    LET superclass == sup.value
        s1 == Environment_define(sup.s, sup.s.environment, stmt.name.lexeme, Nil)
        s2 == IF ~IsNone(stmt.superclass)
              THEN LET n == Environment_new(s1, s1.environment)
                   IN  Environment_define([n EXCEPT !.environment = NewestEnv(n)], NewestEnv(n), "super", superclass)
              ELSE s1
        m == Interpreter_methods_loop(s2, stmt.methods, 1, <<>>)
        s3 == [m.s EXCEPT !.classes = Append(IF superclass.t = "class" THEN [@ EXCEPT ![superclass.v].superclass = 0] ELSE @,
                                             [name |-> stmt.name.lexeme,
                                              superclass |-> IF superclass.t = "class" THEN superclass.v ELSE 0,
                                              methods |-> m.methods])]
        kclass == ClassRef(Len(s3.classes))
        s4 == IF superclass.t # "nil" THEN [s3 EXCEPT !.environment = s3.envs[s3.environment].enclosing] ELSE s3
    IN  Environment_assign(s4, s4.environment, stmt.name, kclass)

\* a class declaration that leaves the environment holding `super` as the current one
Interpreter_class_define_no_pop(stmt, sup) ==
    LET superclass == sup.value
        s1 == Environment_define(sup.s, sup.s.environment, stmt.name.lexeme, Nil)
        s2 == IF ~IsNone(stmt.superclass)
              THEN LET n == Environment_new(s1, s1.environment)
                   IN  Environment_define([n EXCEPT !.environment = NewestEnv(n)], NewestEnv(n), "super", superclass)
              ELSE s1
        m == Interpreter_methods_loop(s2, stmt.methods, 1, <<>>)
        s3 == [m.s EXCEPT !.classes = Append(@, [name |-> stmt.name.lexeme,
                                                 superclass |-> IF superclass.t = "class" THEN superclass.v ELSE 0,
                                                 methods |-> m.methods])]
    IN  Environment_assign(s3, s3.environment, stmt.name, ClassRef(Len(s3.classes)))

\* visit_class_stmt once the superclass is evaluated to sup
Interpreter_class_define(stmt, sup) ==
    LET superclass == sup.value
        s1 == Environment_define(sup.s, sup.s.environment, stmt.name.lexeme, Nil)
        s2 == IF ~IsNone(stmt.superclass)
              THEN LET n == Environment_new(s1, s1.environment)
                   IN  Environment_define([n EXCEPT !.environment = NewestEnv(n)], NewestEnv(n), "super", superclass)
              ELSE s1
        m == Interpreter_methods_loop(s2, stmt.methods, 1, <<>>)
        s3 == [m.s EXCEPT !.classes = Append(@, [name |-> stmt.name.lexeme,
                                                 superclass |-> IF superclass.t = "class" THEN superclass.v ELSE 0,
                                                 methods |-> m.methods])]
        kclass == ClassRef(Len(s3.classes))
        s4 == IF superclass.t # "nil" THEN [s3 EXCEPT !.environment = s3.envs[s3.environment].enclosing] ELSE s3
    IN  Environment_assign(s4, s4.environment, stmt.name, kclass)

\* the history of a class declaration: the class name, whether a superclass is named,
\* the current environment, the number of environments and of classes and the value maps
\* when the statement began (s); and once it was over (x) the current environment, what
\* the statement gave, the value the declaring environment binds the name to, the
\* classes, the closures of the methods of the newest class and the environments
\* allocated meanwhile
Interpreter_class_exit(s, stmt, x) ==
    LET declaring == s.environment
        made == Len(x.s.classes) > Len(s.classes)
        kclass == Len(x.s.classes)
    IN
    [x EXCEPT !.s = Emit(x.s, [e |-> "class", name |-> stmt.name.lexeme, has_superclass |-> ~IsNone(stmt.superclass),
                               declared |-> {stmt.methods[i].name.lexeme : i \in DOMAIN stmt.methods},
                               before |-> declaring, after |-> x.s.environment,
                               envs |-> Len(s.envs), classes |-> Len(s.classes), same |-> x.s.envs = s.envs,
                               result |-> x.sig, message |-> x.message,
                               bound |-> IF stmt.name.lexeme \in DOMAIN x.s.envs[declaring].values
                                         THEN x.s.envs[declaring].values[stmt.name.lexeme] ELSE Nil,
                               classes_after |-> Len(x.s.classes),
                               superclass |-> IF made THEN x.s.classes[kclass].superclass ELSE 0,
                               methods |-> IF made THEN DOMAIN x.s.classes[kclass].methods ELSE {},
                               closures |-> IF made
                                            THEN {x.s.fns[x.s.classes[kclass].methods[m]].closure :
                                                     m \in DOMAIN x.s.classes[kclass].methods}
                                            ELSE {},
                               allocated |-> [n \in (Len(s.envs) + 1)..Len(x.s.envs) |-> x.s.envs[n]]])]

Interpreter_visit_class_stmt(s, stmt) ==
    Interpreter_class_exit(s, stmt,
        Interpreter_then(IF ~IsNone(stmt.superclass) THEN Interpreter_evaluate(s, stmt.superclass) ELSE XOk(s, Nil),
                         LAMBDA sup :
            IF ~IsNone(stmt.superclass) /\ sup.value.t # "class"
            THEN RuntimeError(sup.s, stmt.superclass.name, "Superclass must be a class.")
            ELSE Interpreter_class_define(stmt, sup)))

RECURSIVE Interpreter_while_loop(_, _, _, _)

\* the body of the loop with no except clause: every signal leaves the loop
Interpreter_while_body_uncaught(b, stmt, w, iter) ==
    IF b.sig = "ok" THEN Interpreter_while_loop(b.s, stmt, w, iter + 1) ELSE b

\* try: self._execute(expr.body) / except Break: break / except Continue:
\* continue; b is what _execute gave
Interpreter_while_body(b, stmt, w, iter) ==
    CASE b.sig = "Break" -> XOk(b.s, Nil)
      [] b.sig \in {"Continue", "ok"} -> Interpreter_while_loop(b.s, stmt, w, iter + 1)
      [] OTHER -> b

\* the while loop of visit_while_stmt from its iter-th test of the condition;
\* w numbers the loop in the history
Interpreter_while_loop(s, stmt, w, iter) ==
    Interpreter_then(Interpreter_evaluate(Emit(s, [e |-> "cond", w |-> w]), stmt.condition), LAMBDA c :
        CASE ~Interpreter_is_truthy(c.value) -> XOk(c.s, Nil)
          [] iter >= MaxIter -> XRaise(c.s, "Cutoff", Nil, NoneNode, "")
          [] OTHER -> Interpreter_while_body(Interpreter_execute(c.s, stmt.body), stmt, w, iter))

\* the history of a loop left: which loop, and how it was left
Interpreter_while_exit(s, w, r) ==
    [r EXCEPT !.s = Emit([r.s EXCEPT !.loops = s.loops], [e |-> "while_exit", w |-> w, sig |-> r.sig])]

Interpreter_visit_while_stmt(s, stmt) ==
    Interpreter_while_exit(s, s.nloops + 1,
                           Interpreter_while_loop([s EXCEPT !.nloops = @ + 1, !.loops = Append(@, s.nloops + 1)],
                                                  stmt, s.nloops + 1, 0))

Interpreter_visit_break_stmt(s, stmt) ==
    XRaise(Emit(s, [e |-> "signal", kind |-> "Break", loops |-> s.loops]), "Break", Nil, stmt.keyword, "")

Interpreter_visit_continue_stmt(s, stmt) ==
    XRaise(Emit(s, [e |-> "signal", kind |-> "Continue", loops |-> s.loops]), "Continue", Nil, stmt.keyword, "")

Interpreter_visit_function_stmt(s, stmt) ==
    LET s1 == PylangFunction_new(s, stmt, s.environment, FALSE)
    IN  XOk(Environment_define(s1, s1.environment, stmt.name.lexeme, FnRef(Len(s1.fns))), Nil)

\* a return statement that raises nothing: the statements after it go on
Interpreter_visit_return_stmt_no_raise(s, stmt) ==
    Interpreter_then(IF ~IsNone(stmt.value) THEN Interpreter_evaluate(s, stmt.value) ELSE XOk(s, Nil), LAMBDA value :
        XOk(Emit(value.s, [e |-> "return", depth |-> value.s.depth, value |-> value.value, nout |-> Len(value.s.out)]), Nil))

Interpreter_visit_return_stmt(s, stmt) ==
    Interpreter_then(IF ~IsNone(stmt.value) THEN Interpreter_evaluate(s, stmt.value) ELSE XOk(s, Nil), LAMBDA value :
        XRaise(Emit(value.s, [e |-> "return", depth |-> value.s.depth, value |-> value.value, nout |-> Len(value.s.out)]),
               "Return", value.value, NoneNode, ""))

\* stmt.accept(self): dispatch on the node's class
Interpreter_execute(s, stmt) ==
    CASE stmt.k = "BlockStmt" -> Interpreter_visit_block_stmt(s, stmt)
      [] stmt.k = "VarStmt" -> Interpreter_visit_var_stmt(s, stmt)
      [] stmt.k = "ExpressionStmt" -> Interpreter_visit_expression_stmt(s, stmt)
      [] stmt.k = "IfStmt" -> Interpreter_visit_if_stmt(s, stmt)
      [] stmt.k = "PrintStmt" -> Interpreter_visit_print_stmt(s, stmt)
      [] stmt.k = "ClassStmt" -> Interpreter_visit_class_stmt(s, stmt)
      [] stmt.k = "WhileStmt" -> Interpreter_visit_while_stmt(s, stmt)
      [] stmt.k = "BreakStmt" -> Interpreter_visit_break_stmt(s, stmt)
      [] stmt.k = "ContinueStmt" -> Interpreter_visit_continue_stmt(s, stmt)
      [] stmt.k = "FunctionStmt" -> Interpreter_visit_function_stmt(s, stmt)
      [] stmt.k = "ReturnStmt" -> Interpreter_visit_return_stmt(s, stmt)

\* Interpreter.__init__
Interpreter_init ==
    [globals |-> 1, environment |-> 1, locals |-> <<>>,
     envs |-> <<[values |-> ("clock" :> ClockFn), enclosing |-> 0]>>,
     fns |-> <<>>, classes |-> <<>>, insts |-> <<>>,
     out |-> <<>>, depth |-> 0, now |-> 0,
     trace |-> <<>>, loops |-> <<>>, nloops |-> 0]

---------------------------------------------------------------------------
(* Scanner (lexer/scanner.py).  The scanner state sc is the record         *)
(* [source_code, tokens, start, current, line, log]; source_code is a      *)
(* sequence of one-character strings and `current` the 0-based cursor.     *)

WHITESPACES_TO_IGNORE == {" ", "\t", "\r"}

STRING_IDENTIFIERS == {"\""}

VALID_IDENTIFIER_CHARACTERS ==
    {"a", "b", "c", "d", "e", "f", "g", "h", "i", "j", "k", "l", "m",
     "n", "o", "p", "q", "r", "s", "t", "u", "v", "w", "x", "y", "z",
     "A", "B", "C", "D", "E", "F", "G", "H", "I", "J", "K", "L", "M",
     "N", "O", "P", "Q", "R", "S", "T", "U", "V", "W", "X", "Y", "Z", "_"}

KEYWORDS ==
    ("and" :> "AND") @@ ("class" :> "CLASS") @@ ("else" :> "ELSE") @@ ("false" :> "FALSE")
    @@ ("for" :> "FOR") @@ ("def" :> "DEF") @@ ("if" :> "IF") @@ ("nil" :> "NIL")
    @@ ("or" :> "OR") @@ ("print" :> "PRINT") @@ ("return" :> "RETURN") @@ ("super" :> "SUPER")
    @@ ("this" :> "THIS") @@ ("true" :> "TRUE") @@ ("var" :> "VAR") @@ ("while" :> "WHILE")

\* the characters float() reads as digits
DecimalDigits == {"0", "1", "2", "3", "4", "5", "6", "7", "8", "9"}

\* str.isdigit on one character: true of the decimal digits and of digits that are not
\* decimal, such as U+00B2, which the model writes "SUPERSCRIPT TWO"
IsDigit(char) == char \in DecimalDigits \cup {"SUPERSCRIPT TWO"}

DigitValue(char) == (CHOOSE i \in 1..10 : Digits[i] = char) - 1

\* source_code[from:to] as one string
RECURSIVE Slice(_, _, _)
Slice(source, from, to) == IF from >= to THEN "" ELSE source[from + 1] \o Slice(source, from + 1, to)

Scanner_is_end(sc) == sc.current >= Len(sc.source_code)

\* returns the state after the step; the character read is source_code[current] of the old state
Scanner_advance(sc) == [sc EXCEPT !.current = @ + 1]

Scanner_add_token(sc, token_type, literal) ==
    [sc EXCEPT !.tokens = Append(@, Token(token_type, Slice(sc.source_code, sc.start, sc.current), literal, sc.line))]

Scanner_match(sc, expected) ==
    IF Scanner_is_end(sc) THEN [sc |-> sc, ok |-> FALSE]
    ELSE IF sc.source_code[sc.current + 1] # expected THEN [sc |-> sc, ok |-> FALSE]
    ELSE [sc |-> [sc EXCEPT !.current = @ + 1], ok |-> TRUE]

\* "\0" at the end of the source; the model writes it "NUL"
Scanner_peek(sc) == IF sc.current >= Len(sc.source_code) THEN "NUL" ELSE sc.source_code[sc.current + 1]

Scanner_peek_next(sc) == IF sc.current + 1 >= Len(sc.source_code) THEN "NUL" ELSE sc.source_code[sc.current + 2]

Scanner_log(sc, message) == [sc EXCEPT !.log = Append(@, LogLine("LexicalError", sc.line, message))]

RECURSIVE Scanner_strings_loop(_)
Scanner_strings_loop(sc) ==
    IF Scanner_peek(sc) \notin STRING_IDENTIFIERS /\ ~Scanner_is_end(sc)
    THEN Scanner_strings_loop(Scanner_advance(IF Scanner_peek(sc) = "\n" THEN [sc EXCEPT !.line = @ + 1] ELSE sc))
    ELSE sc

Scanner_handle_strings(sc) ==
    LET sc1 == Scanner_strings_loop(sc)
    IN  IF Scanner_is_end(sc1) THEN Scanner_log(sc1, "Unterminated string")
        ELSE LET sc2 == Scanner_advance(sc1)
             IN  Scanner_add_token(sc2, "STRING", Str(Slice(sc2.source_code, sc2.start + 1, sc2.current - 1)))

RECURSIVE Scanner_digits_loop(_)
Scanner_digits_loop(sc) == IF IsDigit(Scanner_peek(sc)) THEN Scanner_digits_loop(Scanner_advance(sc)) ELSE sc

\* float(text) for text = digits, or digits "." digits, at source_code[from:to]
RECURSIVE ParseFloat(_, _, _, _, _)
ParseFloat(source, from, to, n, d) ==
    IF from >= to THEN Frac(n, IF d = 0 THEN 1 ELSE d)
    ELSE IF source[from + 1] = "." THEN ParseFloat(source, from + 1, to, n, 1)
    ELSE ParseFloat(source, from + 1, to, n * 10 + DigitValue(source[from + 1]), d * 10)

Scanner_handle_numbers(sc) ==
    LET sc1 == Scanner_digits_loop(sc)
        sc2 == IF Scanner_peek(sc1) = "." /\ IsDigit(Scanner_peek_next(sc1))
               THEN Scanner_digits_loop(Scanner_advance(sc1))
               ELSE sc1
        number == [t |-> "num", v |-> ParseFloat(sc2.source_code, sc2.start, sc2.current, 0, 0)]
    IN  IF \E i \in (sc2.start + 1)..sc2.current : sc2.source_code[i] \notin DecimalDigits \cup {"."}
        THEN [sc2 EXCEPT !.exc = "ValueError"]
        ELSE Scanner_add_token(sc2, "NUMBER", number)

Scanner_is_alpha(char) == char \in VALID_IDENTIFIER_CHARACTERS

Scanner_is_alphanumeric(char) == char \in VALID_IDENTIFIER_CHARACTERS \/ IsDigit(char)

RECURSIVE Scanner_identifiers_loop(_)
Scanner_identifiers_loop(sc) ==
    IF Scanner_is_alphanumeric(Scanner_peek(sc)) THEN Scanner_identifiers_loop(Scanner_advance(sc)) ELSE sc

Scanner_handle_identifiers(sc) ==
    LET sc1 == Scanner_identifiers_loop(sc)
        code == Slice(sc1.source_code, sc1.start, sc1.current)
        token_type == IF code \in DOMAIN KEYWORDS THEN KEYWORDS[code] ELSE "IDENTIFIER"
    IN  Scanner_add_token(sc1, token_type, Nil)

RECURSIVE Scanner_comment_loop(_)
Scanner_comment_loop(sc) ==
    IF Scanner_peek(sc) # "\n" /\ ~Scanner_is_end(sc) THEN Scanner_comment_loop(Scanner_advance(sc)) ELSE sc

\* a == or a single-character token: the longer form when "=" follows
Scanner_one_or_two(sc, two, one) ==
    LET m == Scanner_match(sc, "=")
    IN  Scanner_add_token(m.sc, IF m.ok THEN two ELSE one, Nil)

Scanner_scan_token(sc0) ==
    LET element == sc0.source_code[sc0.current + 1]
        sc == Scanner_advance(sc0)
    IN  CASE element = "(" -> Scanner_add_token(sc, "LEFT_PAREN", Nil)
          [] element = ")" -> Scanner_add_token(sc, "RIGHT_PAREN", Nil)
          [] element = "{" -> Scanner_add_token(sc, "LEFT_BRACE", Nil)
          [] element = "}" -> Scanner_add_token(sc, "RIGHT_BRACE", Nil)
          [] element = "," -> Scanner_add_token(sc, "COMMA", Nil)
          [] element = "." -> Scanner_add_token(sc, "DOT", Nil)
          [] element = "-" -> Scanner_add_token(sc, "MINUS", Nil)
          [] element = "+" -> Scanner_add_token(sc, "PLUS", Nil)
          [] element = ";" -> Scanner_add_token(sc, "SEMICOLON", Nil)
          [] element = "*" -> Scanner_add_token(sc, "STAR", Nil)
          [] element = "!" -> Scanner_one_or_two(sc, "BANG_EQUAL", "BANG")
          [] element = "=" -> Scanner_one_or_two(sc, "EQUAL_EQUAL", "EQUAL")
          [] element = "<" -> Scanner_one_or_two(sc, "LESS_EQUAL", "LESS")
          [] element = ">" -> Scanner_one_or_two(sc, "GREATER_EQUAL", "GREATER")
          [] element = "/" -> LET m == Scanner_match(sc, "/")
                              IN  IF m.ok THEN Scanner_comment_loop(m.sc) ELSE Scanner_add_token(sc, "SLASH", Nil)
          [] element \in WHITESPACES_TO_IGNORE -> sc
          [] element = "\n" -> [sc EXCEPT !.line = @ + 1]
          [] element \in STRING_IDENTIFIERS -> Scanner_handle_strings(sc)
          [] IsDigit(element) -> Scanner_handle_numbers(sc)
          [] OTHER -> IF Scanner_is_alpha(element) THEN Scanner_handle_identifiers(sc)
                      ELSE Scanner_log(sc, "Unexpected character " \o element)

\* Scanner.__init__
Scanner_init(source) ==
    [source_code |-> source, tokens |-> <<>>, start |-> 0, current |-> 0, line |-> 1, log |-> <<>>, exc |-> "none"]

---------------------------------------------------------------------------
(* run (pylang.py).  One run of a source is the sequence                   *)
(*     scan -> parse -> resolve -> interpret                                *)
(* and each action below is one iteration of the loop of the stage that pc *)
(* names, or the code that follows the loop.  stdout is what Logger.error  *)
(* and print have written; exit_code is -1 while the process is running.   *)
(* pc = "exit" is a finished process, pc = "returned" is run() returning   *)
(* to the REPL, pc = "cutoff" is an evaluation the bounds of the model     *)
(* stopped.                                                                *)

\* Parser.__init__
Parser_init(tokens) == [tokens |-> tokens, current |-> 0, had_error |-> FALSE, log |-> <<>>, recoveries |-> <<>>]

\* Resolver.__init__
Resolver_init ==
    [scopes |-> <<>>, current_function |-> "NONE", current_class |-> "NONE", locals |-> <<>>, log |-> <<>>, returns |-> <<>>,
     kinds |-> <<>>]

NoStatements == [is_none |-> FALSE, stmts |-> <<>>]

\* an exception that nothing in run() catches: a traceback and exit status 1
\* for a file, print(e) and the end of the REPL loop for the REPL
Uncaught(out, message) ==
    /\ pc' = "exit"
    /\ exit_code' = IF is_repl THEN 0 ELSE 1
    /\ stdout' = IF is_repl THEN Append(out, LogLine("print", 0, message)) ELSE out

\* except (InterpreterRuntimeError, ResolverError) of run()
Caught ==
    /\ pc' = IF is_repl THEN "returned" ELSE "exit"
    /\ exit_code' = IF is_repl THEN exit_code ELSE 70

\* one iteration of the while loop of Scanner.scan_tokens
ScanToken ==
    /\ pc = "scan"
    /\ ~Scanner_is_end(scanner)
    /\ LET sc == Scanner_scan_token([scanner EXCEPT !.start = scanner.current])
       IN  /\ scanner' = [sc EXCEPT !.log = <<>>]
           /\ IF sc.exc = "none"
              THEN /\ stdout' = stdout \o sc.log
                   /\ UNCHANGED <<pc, exit_code>>
              ELSE Uncaught(stdout \o sc.log, "could not convert string to float")
    /\ UNCHANGED <<is_repl, source_code, parser, statements, resolver, interp, ip>>

\* the end of Scanner.scan_tokens, and Parser.__init__
ScanEnd ==
    /\ pc = "scan"
    /\ Scanner_is_end(scanner)
    /\ scanner' = [scanner EXCEPT !.tokens = Append(@, Token("EOF", "", Nil, scanner.line))]
    /\ parser' = Parser_init(scanner'.tokens)
    /\ pc' = "parse"
    /\ UNCHANGED <<is_repl, source_code, statements, resolver, interp, ip, stdout, exit_code>>

\* evaluated_stmt = self._declaration(); if evaluated_stmt is not None:
\* statements.append(evaluated_stmt)
Parsed(evaluated_stmt) ==
    /\ parser' = [evaluated_stmt.p EXCEPT !.log = <<>>]
    /\ stdout' = stdout \o evaluated_stmt.p.log
    /\ statements' = IF IsNone(evaluated_stmt.node) THEN statements
                     ELSE [statements EXCEPT !.stmts = Append(@, evaluated_stmt.node)]

\* one iteration of the while loop of Parser.parse
ParseDeclaration ==
    /\ pc = "parse"
    /\ ~Parser_is_end(parser)
    /\ Parsed(ParserDo("Parser_declaration", <<parser>>))
    /\ UNCHANGED <<pc, is_repl, source_code, scanner, resolver, interp, ip, exit_code>>

\* the return of Parser.parse, the None test of run(), Interpreter() and Resolver()
ParseReturn ==
    /\ pc = "parse"
    /\ Parser_is_end(parser)
    /\ statements' = IF ~parser.had_error THEN statements ELSE [is_none |-> TRUE, stmts |-> <<>>]
    /\ IF statements'.is_none
       THEN /\ pc' = IF is_repl THEN "returned" ELSE "exit"
            /\ exit_code' = IF is_repl THEN exit_code ELSE 64
            /\ UNCHANGED <<resolver, interp, ip>>
       ELSE /\ pc' = "resolve"
            /\ interp' = Interpreter_init
            /\ resolver' = Resolver_init
            /\ ip' = 1
            /\ UNCHANGED exit_code
    /\ UNCHANGED <<is_repl, source_code, scanner, parser, stdout>>

\* a run() that goes on after a ResolverError is logged
Resolved_and_goes_on(e) ==
    /\ resolver' = [e.r EXCEPT !.log = <<>>]
    /\ interp' = [interp EXCEPT !.locals = e.r.locals]
    /\ CASE e.exc \in {"none", "ResolverError"} ->
              /\ ip' = ip + 1
              /\ stdout' = stdout \o e.r.log
              /\ UNCHANGED <<pc, exit_code>>
         [] OTHER ->
              /\ Uncaught(stdout \o e.r.log, e.message)
              /\ UNCHANGED ip

\* what run() does with the outcome e of resolving one statement
Resolved(e) ==
    /\ resolver' = [e.r EXCEPT !.log = <<>>]
    /\ interp' = [interp EXCEPT !.locals = e.r.locals]
    /\ CASE e.exc = "none" ->
              /\ ip' = ip + 1
              /\ stdout' = stdout \o e.r.log
              /\ UNCHANGED <<pc, exit_code>>
         [] e.exc = "ResolverError" ->
              /\ Caught
              /\ stdout' = stdout \o e.r.log
              /\ UNCHANGED ip
         [] OTHER ->
              /\ Uncaught(stdout \o e.r.log, e.message)
              /\ UNCHANGED ip

\* one iteration of the for loop of the outermost Resolver.resolve_statements
ResolveStatement ==
    /\ pc = "resolve"
    /\ ip <= Len(statements.stmts)
    /\ Resolved(Resolver_resolve_one(resolver, statements.stmts[ip]))
    /\ UNCHANGED <<is_repl, source_code, scanner, parser, statements>>

\* the end of Resolver.resolve_statements
ResolveEnd ==
    /\ pc = "resolve"
    /\ ip > Len(statements.stmts)
    /\ pc' = "interpret"
    /\ ip' = 1
    /\ UNCHANGED <<is_repl, source_code, scanner, parser, statements, resolver, interp, stdout, exit_code>>

\* an interpret() that logs a RuntimeError and goes on with the next statement
Interpreted_and_goes_on(e) ==
    LET out == stdout \o e.s.out
    IN  /\ interp' = [e.s EXCEPT !.out = <<>>]
        /\ CASE e.sig = "ok" ->
                  /\ ip' = ip + 1
                  /\ stdout' = out
                  /\ UNCHANGED <<pc, exit_code>>
             [] e.sig \in {"InterpreterRuntimeError", "Break", "Continue", "RecursionError"} ->
                  /\ ip' = ip + 1
                  /\ stdout' = Append(out, LogLine("RuntimeError", 0, e.message))
                  /\ UNCHANGED <<pc, exit_code>>
             [] e.sig = "Cutoff" ->
                  /\ pc' = "cutoff"
                  /\ stdout' = out
                  /\ UNCHANGED <<ip, exit_code>>
             [] OTHER ->
                  /\ Uncaught(out, e.message)
                  /\ UNCHANGED ip

\* the except clauses of Interpreter.interpret and of run(); e is what
\* _execute gave
Interpreted(e) ==
    LET out == stdout \o e.s.out
    IN  /\ interp' = [e.s EXCEPT !.out = <<>>]
        /\ CASE e.sig = "ok" ->
                  /\ ip' = ip + 1
                  /\ stdout' = out
                  /\ UNCHANGED <<pc, exit_code>>
             [] e.sig = "InterpreterRuntimeError" ->
                  /\ Caught
                  /\ stdout' = Append(out, LogLine("RuntimeError", e.token.line, e.message))
                  /\ UNCHANGED ip
             [] e.sig = "Break" ->
                  /\ Caught
                  /\ stdout' = Append(out, LogLine("RuntimeError", e.token.line, "Break statement outside of loop."))
                  /\ UNCHANGED ip
             [] e.sig = "Continue" ->
                  /\ Caught
                  /\ stdout' = Append(out, LogLine("RuntimeError", e.token.line, "Continue statement outside of loop."))
                  /\ UNCHANGED ip
             [] e.sig = "RecursionError" ->
                  /\ Caught
                  /\ stdout' = Append(out, LogLine("RuntimeError", 0, "Stack overflow."))
                  /\ UNCHANGED ip
             [] e.sig = "Cutoff" ->
                  /\ pc' = "cutoff"
                  /\ stdout' = out
                  /\ UNCHANGED <<ip, exit_code>>
             [] OTHER ->
                  /\ Uncaught(out, e.message)
                  /\ UNCHANGED ip

\* one iteration of the for loop of Interpreter.interpret, with its except clauses
InterpretStatement ==
    /\ pc = "interpret"
    /\ ip <= Len(statements.stmts)
    /\ Interpreted(Interpreter_execute(interp, statements.stmts[ip]))
    /\ UNCHANGED <<is_repl, source_code, scanner, parser, statements, resolver>>

\* the end of Interpreter.interpret and of run()
InterpretEnd ==
    /\ pc = "interpret"
    /\ ip > Len(statements.stmts)
    /\ pc' = IF is_repl THEN "returned" ELSE "exit"
    /\ exit_code' = IF is_repl THEN exit_code ELSE 0
    /\ UNCHANGED <<is_repl, source_code, scanner, parser, statements, resolver, interp, ip, stdout>>

---------------------------------------------------------------------------
(* Programs.  A program is written as the sequence of its lexemes; Lex     *)
(* gives each lexeme the token that lexer/token_type.py names for it, on   *)
(* line 1.                                                                 *)

Punctuation ==
    ("(" :> "LEFT_PAREN") @@ (")" :> "RIGHT_PAREN") @@ ("{" :> "LEFT_BRACE") @@ ("}" :> "RIGHT_BRACE")
    @@ ("," :> "COMMA") @@ ("." :> "DOT") @@ ("-" :> "MINUS") @@ ("+" :> "PLUS") @@ (";" :> "SEMICOLON")
    @@ (":" :> "COLON") @@ ("/" :> "SLASH") @@ ("*" :> "STAR") @@ ("!" :> "BANG") @@ ("!=" :> "BANG_EQUAL")
    @@ ("=" :> "EQUAL") @@ ("==" :> "EQUAL_EQUAL") @@ (">" :> "GREATER") @@ (">=" :> "GREATER_EQUAL")
    @@ ("<" :> "LESS") @@ ("<=" :> "LESS_EQUAL")

Keywords ==
    ("and" :> "AND") @@ ("class" :> "CLASS") @@ ("continue" :> "CONTINUE") @@ ("else" :> "ELSE")
    @@ ("false" :> "FALSE") @@ ("def" :> "DEF") @@ ("for" :> "FOR") @@ ("if" :> "IF") @@ ("nil" :> "NIL")
    @@ ("or" :> "OR") @@ ("print" :> "PRINT") @@ ("return" :> "RETURN") @@ ("super" :> "SUPER")
    @@ ("self" :> "SELF") @@ ("true" :> "TRUE") @@ ("var" :> "VAR") @@ ("while" :> "WHILE") @@ ("break" :> "BREAK")

NumberLexemes == ("0" :> 0) @@ ("1" :> 1) @@ ("2" :> 2) @@ ("3" :> 3) @@ ("4" :> 4) @@ ("10" :> 10)

StringLexemes ==
    ("\"global\"" :> "global") @@ ("\"block\"" :> "block") @@ ("\"local\"" :> "local")
    @@ ("\"A\"" :> "A") @@ ("\"1\"" :> "1") @@ ("\"B\"" :> "B") @@ ("\"end\"" :> "end")

Lex(lexeme) ==
    CASE lexeme \in DOMAIN Punctuation -> Token(Punctuation[lexeme], lexeme, Nil, 1)
      [] lexeme \in DOMAIN Keywords -> Token(Keywords[lexeme], lexeme, Nil, 1)
      [] lexeme \in DOMAIN NumberLexemes -> Token("NUMBER", lexeme, Num(NumberLexemes[lexeme]), 1)
      [] lexeme \in DOMAIN StringLexemes -> Token("STRING", lexeme, Str(StringLexemes[lexeme]), 1)
      [] OTHER -> Token("IDENTIFIER", lexeme, Nil, 1)

Program(lexemes) == [i \in 1..(Len(lexemes) + 1) |-> IF i <= Len(lexemes) THEN Lex(lexemes[i]) ELSE Token("EOF", "", Nil, 1)]

\* statements that leave a block: normally, by a signal, by a runtime error
ExitStatements ==
    {<<"print", "1", ";">>, <<"return", ";">>, <<"return", "1", ";">>, <<"break", ";">>,
     <<"continue", ";">>, <<"nil", "(", ")", ";">>}

\* { var a = 1; { X } print a; }
BlockAtTopLevel(X) == <<"{", "var", "a", "=", "1", ";", "{">> \o X \o <<"}", "print", "a", ";", "}">>

\* def f() { var a = 1; { X } print a; } f(); print 2;
BlockInFunction(X) ==
    <<"def", "f", "(", ")", "{", "var", "a", "=", "1", ";", "{">> \o X
    \o <<"}", "print", "a", ";", "}", "f", "(", ")", ";", "print", "2", ";">>

\* var i = 0; while (i < 2) { i = i + 1; { X } print i; } print 3;
BlockInLoop(X) ==
    <<"var", "i", "=", "0", ";", "while", "(", "i", "<", "2", ")", "{", "i", "=", "i", "+", "1", ";", "{">> \o X
    \o <<"}", "print", "i", ";", "}", "print", "3", ";">>

\* def f() { X } var i = 0; while (i < 2) { i = i + 1; { f(); } print i; } print 3;
CallInLoop(X) ==
    <<"def", "f", "(", ")", "{">> \o X
    \o <<"}", "var", "i", "=", "0", ";", "while", "(", "i", "<", "2", ")", "{", "i", "=", "i", "+", "1", ";",
         "{", "f", "(", ")", ";", "}", "print", "i", ";", "}", "print", "3", ";">>

BlockPrograms ==
    {BlockAtTopLevel(X) : X \in ExitStatements} \cup {BlockInFunction(X) : X \in ExitStatements}
    \cup {BlockInLoop(X) : X \in ExitStatements} \cup {CallInLoop(X) : X \in ExitStatements}

\* class A { m() { return self; } }
ClassA == <<"class", "A", "{", "m", "(", ")", "{", "return", "self", ";", "}", "}">>

\* class <name> : <super> { m() { <body> } }
SubClass(name, super, body) == <<"class", name, ":", super, "{", "m", "(", ")", "{">> \o body \o <<"}", "}">>

\* super.m in the method itself, in a block of it, bound first and called later
SuperBodies ==
    {<<"return", "super", ".", "m", "(", ")", ";">>,
     <<"{", "return", "super", ".", "m", "(", ")", ";", "}">>,
     <<"var", "f", "=", "super", ".", "m", ";", "return", "f", "(", ")", ";">>}

\* super.m in a function declared in the method: def g() { return super.m(); } return g();
SuperInFunction ==
    <<"def", "g", "(", ")", "{", "return", "super", ".", "m", "(", ")", ";", "}", "return", "g", "(", ")", ";">>

\* var b = <class>(); print b.m() == b;
CallM(class) == <<"var", "b", "=", class, "(", ")", ";", "print", "b", ".", "m", "(", ")", "==", "b", ";">>

SuperPrograms ==
    {ClassA \o SubClass("B", "A", body) \o CallM("B") : body \in SuperBodies \cup {SuperInFunction}}
    \cup {ClassA \o SubClass("B", "A", body) \o SubClass("C", "B", body) \o CallM("C") : body \in SuperBodies}
    \cup {ClassA \o CallM("A")}

\* programs that declare a name twice in one non-global scope
RedeclareLocalPrograms ==
    {<<"{", "var", "a", ";", "var", "a", ";", "}">>,
     <<"{", "var", "a", "=", "1", ";", "print", "a", ";", "var", "a", "=", "2", ";", "}">>,
     <<"def", "f", "(", "a", ",", "a", ")", "{", "}">>,
     <<"def", "f", "(", "a", ")", "{", "var", "a", ";", "}">>,
     <<"{", "def", "g", "(", ")", "{", "}", "def", "g", "(", ")", "{", "}", "}">>,
     <<"{", "class", "K", "{", "}", "class", "K", "{", "}", "}">>,
     <<"{", "var", "g", ";", "def", "g", "(", ")", "{", "}", "}">>,
     <<"print", "1", ";", "{", "var", "a", ";", "{", "var", "a", ";", "var", "a", ";", "}", "}">>}

\* programs that declare a name twice at global scope, or once in each of two scopes
RedeclareGlobalPrograms ==
    {<<"var", "a", "=", "1", ";", "var", "a", "=", "2", ";", "print", "a", ";">>,
     <<"def", "g", "(", ")", "{", "}", "def", "g", "(", ")", "{", "}", "print", "1", ";">>,
     <<"class", "K", "{", "}", "class", "K", "{", "}", "print", "1", ";">>,
     <<"var", "a", "=", "1", ";", "{", "var", "a", "=", "2", ";", "{", "var", "a", "=", "3", ";", "print", "a", ";", "}", "}">>}

\* other resolver errors, runtime errors, a stack overflow, an endless loop
ErrorPrograms ==
    {<<"return", "1", ";">>,
     <<"print", "self", ";">>,
     <<"{", "var", "a", "=", "a", ";", "}">>,
     <<"class", "A", ":", "A", "{", "}">>,
     <<"print", "1", ";", "print", "x", ";">>,
     <<"print", "1", ";", "print", "-", "nil", ";", "print", "2", ";">>,
     <<"def", "f", "(", ")", "{", "f", "(", ")", ";", "}", "f", "(", ")", ";">>,
     <<"print", "1", ";", "while", "(", "true", ")", "{", "}">>,
     <<"print", "def", "(", ")", "{", "}", ";">>}

\* programs that print and then have a statement the resolver rejects with a ResolverError
ResolverErrorPrograms ==
    {<<"print", "1", ";", "return", ";">>,
     <<"print", "1", ";", "{", "var", "a", "=", "a", ";", "}", "print", "2", ";">>,
     <<"var", "a", "=", "1", ";", "print", "a", ";", "class", "A", "{", "init", "(", ")", "{", "return", "1", ";", "}", "}">>,
     <<"print", "1", ";", "def", "f", "(", ")", "{", "print", "self", ";", "}", "f", "(", ")", ";">>,
     <<"print", "1", ";", "def", "f", "(", ")", "{", "return", "super", ".", "m", ";", "}">>}

\* programs with syntax errors: at a keyword, at the first token, inside a block, inside
\* a function and a class, at the end of the source, two in a row
SyntaxErrorPrograms ==
    {<<"print", "print", "1", ";">>,
     <<")", ")", ";", "print", "1", ";">>,
     <<"{", "print", ";", "var", "a", ";", "}", "print", "2", ";">>,
     <<"{", "(", "}">>,
     <<"{", ")">>,
     <<"{">>,
     <<"var", ";", "var", "var", "a", ";">>,
     <<"var", "var", "var", "a", ";", "{">>,
     <<"def", "f", "(", "{", "}", "print", "1", ";">>,
     <<"def", "f", "(", ")", "{", "return", "+", ";", "print", "1", ";", "}", "print", "2", ";">>,
     <<"class", "{", "}", "print", "1", ";">>,
     <<"class", "A", "{", "m", "(", ")", "{", "1", "+", ";", "}", "}", "print", "1", ";">>,
     <<"if", "(", "1", "print", "1", ";">>,
     <<"while", "(", ")", "1", ";", "for", "(", ";", ";", ")", ";">>,
     <<"1", "+", "*", "2", "if", "else", "3", ";">>,
     <<"a", ".", ";", "b", "(", "1", ",", ";">>}

\* programs with a return statement: whether the resolver rejects it, and what is
\* printed when it does not
ReturnKindScenarios ==
    {\* def f() { } return;
     [program |-> <<"def", "f", "(", ")", "{", "}", "return", ";">>, rejected |-> TRUE, prints |-> <<>>],
     \* def f() { return 1; } print f(); return 2;
     [program |-> <<"def", "f", "(", ")", "{", "return", "1", ";", "}", "print", "f", "(", ")", ";", "return", "2", ";">>,
      rejected |-> TRUE, prints |-> <<>>],
     \* class A { m() { return 1; } } { return; }
     [program |-> <<"class", "A", "{", "m", "(", ")", "{", "return", "1", ";", "}", "}", "{", "return", ";", "}">>,
      rejected |-> TRUE, prints |-> <<>>],
     \* if (true) return 1;
     [program |-> <<"if", "(", "true", ")", "return", "1", ";">>, rejected |-> TRUE, prints |-> <<>>],
     \* class A { init() { def g() { return 1; } print g(); } } A();
     [program |-> <<"class", "A", "{", "init", "(", ")", "{", "def", "g", "(", ")", "{", "return", "1", ";", "}",
                    "print", "g", "(", ")", ";", "}", "}", "A", "(", ")", ";">>,
      rejected |-> FALSE, prints |-> <<"1">>],
     \* class A { init() { def g() { return 1; } return 2; } }
     [program |-> <<"class", "A", "{", "init", "(", ")", "{", "def", "g", "(", ")", "{", "return", "1", ";", "}",
                    "return", "2", ";", "}", "}">>,
      rejected |-> TRUE, prints |-> <<>>],
     \* class A { init() { def g() { return 1; } return; } m() { return 3; } } print A().m();
     [program |-> <<"class", "A", "{", "init", "(", ")", "{", "def", "g", "(", ")", "{", "return", "1", ";", "}",
                    "return", ";", "}", "m", "(", ")", "{", "return", "3", ";", "}", "}",
                    "print", "A", "(", ")", ".", "m", "(", ")", ";">>,
      rejected |-> FALSE, prints |-> <<"3">>],
     \* class A { m() { return 1; } init() { return 2; } }
     [program |-> <<"class", "A", "{", "m", "(", ")", "{", "return", "1", ";", "}", "init", "(", ")", "{", "return", "2", ";", "}", "}">>,
      rejected |-> TRUE, prints |-> <<>>],
     \* def f() { def g() { return; } return g; } print f()();
     [program |-> <<"def", "f", "(", ")", "{", "def", "g", "(", ")", "{", "return", ";", "}", "return", "g", ";", "}",
                    "print", "f", "(", ")", "(", ")", ";">>,
      rejected |-> FALSE, prints |-> <<"nil">>]}

\* programs with `self` or `super`: whether the resolver rejects the program
ClassKindScenarios ==
    {\* class A { } print self;
     [program |-> <<"class", "A", "{", "}", "print", "self", ";">>, rejected |-> TRUE],
     \* class A { } class B : A { } print super.m;
     [program |-> <<"class", "A", "{", "}", "class", "B", ":", "A", "{", "}", "print", "super", ".", "m", ";">>,
      rejected |-> TRUE],
     \* def f() { return self; }
     [program |-> <<"def", "f", "(", ")", "{", "return", "self", ";", "}">>, rejected |-> TRUE],
     \* class A { m() { return super.m; } }
     [program |-> <<"class", "A", "{", "m", "(", ")", "{", "return", "super", ".", "m", ";", "}", "}">>,
      rejected |-> TRUE],
     \* class A { m() { class B : A { } return super.m; } }
     [program |-> <<"class", "A", "{", "m", "(", ")", "{", "class", "B", ":", "A", "{", "}",
                    "return", "super", ".", "m", ";", "}", "}">>,
      rejected |-> TRUE],
     \* class A { m() { class B : A { } return self; } } print A().m() == nil;
     [program |-> <<"class", "A", "{", "m", "(", ")", "{", "class", "B", ":", "A", "{", "}", "return", "self", ";", "}", "}",
                    "print", "A", "(", ")", ".", "m", "(", ")", "==", "nil", ";">>,
      rejected |-> FALSE],
     \* class A { } class B : A { m() { class C { } return super.m; } }
     [program |-> <<"class", "A", "{", "}", "class", "B", ":", "A", "{", "m", "(", ")", "{", "class", "C", "{", "}",
                    "return", "super", ".", "m", ";", "}", "}">>,
      rejected |-> FALSE],
     \* class A { } class B : A { m() { class C { n() { return super.n; } } } }
     [program |-> <<"class", "A", "{", "}", "class", "B", ":", "A", "{", "m", "(", ")", "{",
                    "class", "C", "{", "n", "(", ")", "{", "return", "super", ".", "n", ";", "}", "}", "}", "}">>,
      rejected |-> TRUE],
     \* class A { m() { def g() { return self; } return g; } } print A().m()() == nil;
     [program |-> <<"class", "A", "{", "m", "(", ")", "{", "def", "g", "(", ")", "{", "return", "self", ";", "}",
                    "return", "g", ";", "}", "}", "print", "A", "(", ")", ".", "m", "(", ")", "(", ")", "==", "nil", ";">>,
      rejected |-> FALSE],
     \* class A { m() { } } { print self; }
     [program |-> <<"class", "A", "{", "m", "(", ")", "{", "}", "}", "{", "print", "self", ";", "}">>,
      rejected |-> TRUE]}

\* class A { m() { return 1; } n() { return 2; } } class B : A { m() { return 3; } } var o = B();
PropertyClasses ==
    <<"class", "A", "{", "m", "(", ")", "{", "return", "1", ";", "}", "n", "(", ")", "{", "return", "2", ";", "}", "}",
      "class", "B", ":", "A", "{", "m", "(", ")", "{", "return", "3", ";", "}", "}", "var", "o", "=", "B", "(", ")", ";">>

\* programs that read and write properties of o, and what they print
PropertyScenarios ==
    {\* print o.m(); print o.n(); print o.m == o.m;
     [program |-> PropertyClasses \o <<"print", "o", ".", "m", "(", ")", ";", "print", "o", ".", "n", "(", ")", ";",
                                       "print", "o", ".", "m", "==", "o", ".", "m", ";">>,
      prints |-> <<"3", "2", "False">>],
     \* o.m = 4; print o.m; o.n = o.m; print o.n; o.m = nil; print o.m;
     [program |-> PropertyClasses \o <<"o", ".", "m", "=", "4", ";", "print", "o", ".", "m", ";",
                                       "o", ".", "n", "=", "o", ".", "m", ";", "print", "o", ".", "n", ";",
                                       "o", ".", "m", "=", "nil", ";", "print", "o", ".", "m", ";">>,
      prints |-> <<"4", "4", "nil">>],
     \* var f = o.m; o.m = 10; print f(); print o.m; print B().m();
     [program |-> PropertyClasses \o <<"var", "f", "=", "o", ".", "m", ";", "o", ".", "m", "=", "10", ";",
                                       "print", "f", "(", ")", ";", "print", "o", ".", "m", ";",
                                       "print", "B", "(", ")", ".", "m", "(", ")", ";">>,
      prints |-> <<"3", "10", "3">>],
     \* o.x = 1; print o.x; print B().x;
     [program |-> PropertyClasses \o <<"o", ".", "x", "=", "1", ";", "print", "o", ".", "x", ";",
                                       "print", "B", "(", ")", ".", "x", ";">>,
      prints |-> <<"1">>],
     \* print o.x;
     [program |-> PropertyClasses \o <<"print", "o", ".", "x", ";">>, prints |-> <<>>],
     \* print A().m(); print A().n(); print o.init;
     [program |-> PropertyClasses \o <<"print", "A", "(", ")", ".", "m", "(", ")", ";",
                                       "print", "A", "(", ")", ".", "n", "(", ")", ";", "print", "o", ".", "init", ";">>,
      prints |-> <<"1", "2">>]}

\* def f(a, b) { print "A"; } def p(x) { print x; return x; }
\* class A { init(a) { print a; } } class B : A { } class C { }
CallDeclarations ==
    <<"def", "f", "(", "a", ",", "b", ")", "{", "print", "\"A\"", ";", "}",
      "def", "p", "(", "x", ")", "{", "print", "x", ";", "return", "x", ";", "}",
      "class", "A", "{", "init", "(", "a", ")", "{", "print", "a", ";", "}", "}",
      "class", "B", ":", "A", "{", "}", "class", "C", "{", "}">>

\* call expressions: what is printed, and the RuntimeError reported ("" for none)
CallScenarios ==
    {\* p(f)(p(1), p(2));
     [program |-> CallDeclarations \o <<"p", "(", "f", ")", "(", "p", "(", "1", ")", ",", "p", "(", "2", ")", ")", ";">>,
      prints |-> <<"<fn>f", "1", "2", "A">>, error |-> ""],
     \* p(nil)(p(1), p(2));
     [program |-> CallDeclarations \o <<"p", "(", "nil", ")", "(", "p", "(", "1", ")", ",", "p", "(", "2", ")", ")", ";">>,
      prints |-> <<"nil", "1", "2">>, error |-> "Can only call functions and classes."],
     \* p(f)(p(1));
     [program |-> CallDeclarations \o <<"p", "(", "f", ")", "(", "p", "(", "1", ")", ")", ";">>,
      prints |-> <<"<fn>f", "1">>, error |-> "Expected 2 arguments but got 1."],
     \* f(1, 2, 3);
     [program |-> CallDeclarations \o <<"f", "(", "1", ",", "2", ",", "3", ")", ";">>,
      prints |-> <<>>, error |-> "Expected 2 arguments but got 3."],
     \* "A"();
     [program |-> CallDeclarations \o <<"\"A\"", "(", ")", ";">>,
      prints |-> <<>>, error |-> "Can only call functions and classes."],
     \* B(); print 1;
     [program |-> CallDeclarations \o <<"B", "(", ")", ";", "print", "1", ";">>,
      prints |-> <<>>, error |-> "Expected 1 arguments but got 0."],
     \* B(2); A(3); C();
     [program |-> CallDeclarations \o <<"B", "(", "2", ")", ";", "A", "(", "3", ")", ";", "C", "(", ")", ";">>,
      prints |-> <<"2", "3">>, error |-> ""],
     \* C(p(1));
     [program |-> CallDeclarations \o <<"C", "(", "p", "(", "1", ")", ")", ";">>,
      prints |-> <<"1">>, error |-> "Expected 0 arguments but got 1."],
     \* A(1, 2);
     [program |-> CallDeclarations \o <<"A", "(", "1", ",", "2", ")", ";">>,
      prints |-> <<>>, error |-> "Expected 1 arguments but got 2."],
     \* C()();
     [program |-> CallDeclarations \o <<"C", "(", ")", "(", ")", ";">>,
      prints |-> <<>>, error |-> "Can only call functions and classes."],
     \* clock(1);
     [program |-> CallDeclarations \o <<"clock", "(", "1", ")", ";">>,
      prints |-> <<>>, error |-> "Expected 0 arguments but got 1."]}

\* var a = 1; def p(x) { print x; return x; }
LogicalDeclarations ==
    <<"var", "a", "=", "1", ";", "def", "p", "(", "x", ")", "{", "print", "x", ";", "return", "x", ";", "}">>

\* `and`/`or` with operands that print or assign, and what is printed
LogicalScenarios ==
    {\* print p(1) or p(2); print p(nil) or p(2); print p(false) or p(nil);
     [program |-> LogicalDeclarations \o
                  <<"print", "p", "(", "1", ")", "or", "p", "(", "2", ")", ";",
                    "print", "p", "(", "nil", ")", "or", "p", "(", "2", ")", ";",
                    "print", "p", "(", "false", ")", "or", "p", "(", "nil", ")", ";">>,
      prints |-> <<"1", "1", "nil", "2", "2", "False", "nil", "nil">>],
     \* print p(1) and p(2); print p(nil) and p(2); print p(false) and p(2); print p(0) and p("A");
     [program |-> LogicalDeclarations \o
                  <<"print", "p", "(", "1", ")", "and", "p", "(", "2", ")", ";",
                    "print", "p", "(", "nil", ")", "and", "p", "(", "2", ")", ";",
                    "print", "p", "(", "false", ")", "and", "p", "(", "2", ")", ";",
                    "print", "p", "(", "0", ")", "and", "p", "(", "\"A\"", ")", ";">>,
      prints |-> <<"1", "2", "2", "nil", "nil", "False", "False", "0", "A", "A">>],
     \* print true or (a = 2); print a; print nil and (a = 3); print a; print nil or (a = 4); print a;
     [program |-> LogicalDeclarations \o
                  <<"print", "true", "or", "(", "a", "=", "2", ")", ";", "print", "a", ";",
                    "print", "nil", "and", "(", "a", "=", "3", ")", ";", "print", "a", ";",
                    "print", "nil", "or", "(", "a", "=", "4", ")", ";", "print", "a", ";">>,
      prints |-> <<"True", "1", "nil", "1", "4", "4">>],
     \* print 0 or nope(); print "A" and 1 or nope(); print nil and nope() or 2; print nil or nope();
     [program |-> LogicalDeclarations \o
                  <<"print", "0", "or", "nope", "(", ")", ";",
                    "print", "\"A\"", "and", "1", "or", "nope", "(", ")", ";",
                    "print", "nil", "and", "nope", "(", ")", "or", "2", ";",
                    "print", "nil", "or", "nope", "(", ")", ";">>,
      prints |-> <<"0", "1", "2">>]}

\* programs whose statements print and then raise: what is printed, the RuntimeError
\* reported ("" for none), and the index of the top-level statement that raises
RuntimeErrorScenarios ==
    {\* print 1; { print 2; nope; print 3; } print 4;
     [program |-> <<"print", "1", ";", "{", "print", "2", ";", "nope", ";", "print", "3", ";", "}", "print", "4", ";">>,
      prints |-> <<"1", "2">>, error |-> "Undefined variable 'nope'.", at |-> 2],
     \* print 1; def f() { print 2; { nil(); } print 3; } var i = 0; while (i < 2) { i = i + 1; f(); } print 4;
     [program |-> <<"print", "1", ";", "def", "f", "(", ")", "{", "print", "2", ";", "{", "nil", "(", ")", ";", "}",
                    "print", "3", ";", "}", "var", "i", "=", "0", ";",
                    "while", "(", "i", "<", "2", ")", "{", "i", "=", "i", "+", "1", ";", "f", "(", ")", ";", "}",
                    "print", "4", ";">>,
      prints |-> <<"1", "2">>, error |-> "Can only call functions and classes.", at |-> 4],
     \* print 1; break; print 2;
     [program |-> <<"print", "1", ";", "break", ";", "print", "2", ";">>,
      prints |-> <<"1">>, error |-> "Break statement outside of loop.", at |-> 2],
     \* def f() { f(); } print 1; f(); print 2;
     [program |-> <<"def", "f", "(", ")", "{", "f", "(", ")", ";", "}", "print", "1", ";", "f", "(", ")", ";", "print", "2", ";">>,
      prints |-> <<"1">>, error |-> "Stack overflow.", at |-> 3],
     \* { var a = 1; class B : a { m() { } } } print 1;
     [program |-> <<"{", "var", "a", "=", "1", ";", "class", "B", ":", "a", "{", "m", "(", ")", "{", "}", "}", "}",
                    "print", "1", ";">>,
      prints |-> <<>>, error |-> "Superclass must be a class.", at |-> 1],
     \* print 1; print 1 / 0; print nope;
     [program |-> <<"print", "1", ";", "print", "1", "/", "0", ";", "print", "nope", ";">>,
      prints |-> <<"1">>, error |-> "Division by zero is not allowed.", at |-> 2],
     \* print 1; { print 2; } print 3;
     [program |-> <<"print", "1", ";", "{", "print", "2", ";", "}", "print", "3", ";">>,
      prints |-> <<"1", "2", "3">>, error |-> "", at |-> 4]}

\* programs that read or assign the name `nope`, which is never declared, or the global
\* `later`: what is printed, whether a RuntimeError is reported, the value of the global a
UndefinedScenarios ==
    {\* var a = 1; print a; nope = 2; print a;
     [program |-> <<"var", "a", "=", "1", ";", "print", "a", ";", "nope", "=", "2", ";", "print", "a", ";">>,
      prints |-> <<"1">>, error |-> TRUE, a |-> 1],
     \* var a = 1; { var b = 2; nope = b; }
     [program |-> <<"var", "a", "=", "1", ";", "{", "var", "b", "=", "2", ";", "nope", "=", "b", ";", "}">>,
      prints |-> <<>>, error |-> TRUE, a |-> 1],
     \* var a = 1; def f() { nope = 2; } print a; f();
     [program |-> <<"var", "a", "=", "1", ";", "def", "f", "(", ")", "{", "nope", "=", "2", ";", "}",
                    "print", "a", ";", "f", "(", ")", ";">>,
      prints |-> <<"1">>, error |-> TRUE, a |-> 1],
     \* var a = 1; print a; { print nope; }
     [program |-> <<"var", "a", "=", "1", ";", "print", "a", ";", "{", "print", "nope", ";", "}">>,
      prints |-> <<"1">>, error |-> TRUE, a |-> 1],
     \* var a = 1; nope = (a = 2);
     [program |-> <<"var", "a", "=", "1", ";", "nope", "=", "(", "a", "=", "2", ")", ";">>,
      prints |-> <<>>, error |-> TRUE, a |-> 2],
     \* var a = 1; def f() { later = a + 1; return later; } var later; print f(); print later;
     [program |-> <<"var", "a", "=", "1", ";", "def", "f", "(", ")", "{", "later", "=", "a", "+", "1", ";",
                    "return", "later", ";", "}", "var", "later", ";", "print", "f", "(", ")", ";", "print", "later", ";">>,
      prints |-> <<"2", "2">>, error |-> FALSE, a |-> 1],
     \* var a = 1; def f() { later = 2; } f(); var later;
     [program |-> <<"var", "a", "=", "1", ";", "def", "f", "(", ")", "{", "later", "=", "2", ";", "}",
                    "f", "(", ")", ";", "var", "later", ";">>,
      prints |-> <<>>, error |-> TRUE, a |-> 1]}

\* a for statement and the block with a while loop that it stands for, each followed by
\* the same statement: what both print, the RuntimeError both report ("" for none), how
\* many times the condition is evaluated, and whether the loop never ends
ForScenarios ==
    {\* for (var i = 0; i < 2; i = i + 1) print i; print i;
     \* { var i = 0; while (i < 2) { print i; i = i + 1; } } print i;
     [for_form |-> <<"for", "(", "var", "i", "=", "0", ";", "i", "<", "2", ";", "i", "=", "i", "+", "1", ")",
                     "print", "i", ";", "print", "i", ";">>,
      while_form |-> <<"{", "var", "i", "=", "0", ";", "while", "(", "i", "<", "2", ")", "{", "print", "i", ";",
                       "i", "=", "i", "+", "1", ";", "}", "}", "print", "i", ";">>,
      prints |-> <<"0", "1">>, error |-> "Undefined variable 'i'.", conds |-> 3, endless |-> FALSE,
      at |-> 1, has_i |-> TRUE, has_c |-> TRUE, has_u |-> TRUE],
     \* for (var i = 0; ; i = i + 1) { if (i == 2) break; print i; } print 3;
     \* { var i = 0; while (true) { { if (i == 2) break; print i; } i = i + 1; } } print 3;
     [for_form |-> <<"for", "(", "var", "i", "=", "0", ";", ";", "i", "=", "i", "+", "1", ")",
                     "{", "if", "(", "i", "==", "2", ")", "break", ";", "print", "i", ";", "}", "print", "3", ";">>,
      while_form |-> <<"{", "var", "i", "=", "0", ";", "while", "(", "true", ")", "{",
                       "{", "if", "(", "i", "==", "2", ")", "break", ";", "print", "i", ";", "}",
                       "i", "=", "i", "+", "1", ";", "}", "}", "print", "3", ";">>,
      prints |-> <<"0", "1", "3">>, error |-> "", conds |-> 3, endless |-> FALSE,
      at |-> 1, has_i |-> TRUE, has_c |-> FALSE, has_u |-> TRUE],
     \* for (var i = 0; i < 3; i = i + 1) { if (i == 1) continue; print i; }
     \* { var i = 0; while (i < 3) { { if (i == 1) continue; print i; } i = i + 1; } }
     [for_form |-> <<"for", "(", "var", "i", "=", "0", ";", "i", "<", "3", ";", "i", "=", "i", "+", "1", ")",
                     "{", "if", "(", "i", "==", "1", ")", "continue", ";", "print", "i", ";", "}">>,
      while_form |-> <<"{", "var", "i", "=", "0", ";", "while", "(", "i", "<", "3", ")", "{",
                       "{", "if", "(", "i", "==", "1", ")", "continue", ";", "print", "i", ";", "}",
                       "i", "=", "i", "+", "1", ";", "}", "}">>,
      prints |-> <<"0">>, error |-> "", conds |-> MaxIter + 1, endless |-> TRUE,
      at |-> 1, has_i |-> TRUE, has_c |-> TRUE, has_u |-> TRUE],
     \* for (var i = 0; i < 3;) { i = i + 1; if (i == 2) continue; print i; }
     \* { var i = 0; while (i < 3) { { i = i + 1; if (i == 2) continue; print i; } } }
     [for_form |-> <<"for", "(", "var", "i", "=", "0", ";", "i", "<", "3", ";", ")",
                     "{", "i", "=", "i", "+", "1", ";", "if", "(", "i", "==", "2", ")", "continue", ";", "print", "i", ";", "}">>,
      while_form |-> <<"{", "var", "i", "=", "0", ";", "while", "(", "i", "<", "3", ")", "{",
                       "{", "i", "=", "i", "+", "1", ";", "if", "(", "i", "==", "2", ")", "continue", ";", "print", "i", ";", "}",
                       "}", "}">>,
      prints |-> <<"1", "3">>, error |-> "", conds |-> 4, endless |-> FALSE,
      at |-> 1, has_i |-> TRUE, has_c |-> TRUE, has_u |-> FALSE],
     \* var i = 0; for (; i < 2; i = i + 1) print i; print i;
     \* var i = 0; { while (i < 2) { print i; i = i + 1; } } print i;
     [for_form |-> <<"var", "i", "=", "0", ";", "for", "(", ";", "i", "<", "2", ";", "i", "=", "i", "+", "1", ")",
                     "print", "i", ";", "print", "i", ";">>,
      while_form |-> <<"var", "i", "=", "0", ";", "{", "while", "(", "i", "<", "2", ")", "{", "print", "i", ";",
                       "i", "=", "i", "+", "1", ";", "}", "}", "print", "i", ";">>,
      prints |-> <<"0", "1", "2">>, error |-> "", conds |-> 3, endless |-> FALSE,
      at |-> 2, has_i |-> FALSE, has_c |-> TRUE, has_u |-> TRUE],
     \* var i = 4; for (i = 0; i < 1; i = i + 1) { var i = 3; print i; } print i;
     \* var i = 4; { i = 0; while (i < 1) { { var i = 3; print i; } i = i + 1; } } print i;
     [for_form |-> <<"var", "i", "=", "4", ";", "for", "(", "i", "=", "0", ";", "i", "<", "1", ";", "i", "=", "i", "+", "1", ")",
                     "{", "var", "i", "=", "3", ";", "print", "i", ";", "}", "print", "i", ";">>,
      while_form |-> <<"var", "i", "=", "4", ";", "{", "i", "=", "0", ";", "while", "(", "i", "<", "1", ")", "{",
                       "{", "var", "i", "=", "3", ";", "print", "i", ";", "}", "i", "=", "i", "+", "1", ";", "}", "}",
                       "print", "i", ";">>,
      prints |-> <<"3", "1">>, error |-> "", conds |-> 2, endless |-> FALSE,
      at |-> 2, has_i |-> TRUE, has_c |-> TRUE, has_u |-> TRUE]}

\* showA(); k times
RECURSIVE Repeat(_, _)
Repeat(lexemes, k) == IF k = 0 THEN <<>> ELSE lexemes \o Repeat(lexemes, k - 1)

\* var a = "global"; { def showA() { print a; } showA(); .. var a = "block"; showA(); .. }
\* with k calls before and k calls after the var of the block
ShadowAfterDeclaration(k) ==
    [program |-> <<"var", "a", "=", "\"global\"", ";", "{", "def", "showA", "(", ")", "{", "print", "a", ";", "}">>
                 \o Repeat(<<"showA", "(", ")", ";">>, k) \o <<"var", "a", "=", "\"block\"", ";">>
                 \o Repeat(<<"showA", "(", ")", ";">>, k) \o <<"}">>,
     prints |-> [i \in 1..(2 * k) |-> "global"]]

\* var a = "global"; { def setA() { a = "local"; } var a = "block"; setA(); print a; } print a;
AssignAfterDeclaration ==
    [program |-> <<"var", "a", "=", "\"global\"", ";", "{", "def", "setA", "(", ")", "{", "a", "=", "\"local\"", ";", "}",
                   "var", "a", "=", "\"block\"", ";", "setA", "(", ")", ";", "print", "a", ";", "}", "print", "a", ";">>,
     prints |-> <<"block", "local">>]

\* var a = "global"; { def showA() { print a; } { var a = "block"; showA(); } var a = "local"; showA(); }
ShadowInInnerBlock ==
    [program |-> <<"var", "a", "=", "\"global\"", ";", "{", "def", "showA", "(", ")", "{", "print", "a", ";", "}",
                   "{", "var", "a", "=", "\"block\"", ";", "showA", "(", ")", ";", "}",
                   "var", "a", "=", "\"local\"", ";", "showA", "(", ")", ";", "}">>,
     prints |-> <<"global", "global">>]

\* var a = "global"; def f() { def showA() { print a; } showA(); var a = "block"; showA(); } f();
ShadowInFunction ==
    [program |-> <<"var", "a", "=", "\"global\"", ";", "def", "f", "(", ")", "{", "def", "showA", "(", ")", "{", "print", "a", ";", "}",
                   "showA", "(", ")", ";", "var", "a", "=", "\"block\"", ";", "showA", "(", ")", ";", "}", "f", "(", ")", ";">>,
     prints |-> <<"global", "global">>]

ScopeScenarios ==
    {ShadowAfterDeclaration(k) : k \in 1..MaxCalls} \cup {AssignAfterDeclaration, ShadowInInnerBlock, ShadowInFunction}

\* def makeCounter() { var i = 0; def count() { i = i + 1; return i; } return count; }
\* var c = makeCounter(); var d = makeCounter();
MakeCounter ==
    <<"def", "makeCounter", "(", ")", "{", "var", "i", "=", "0", ";",
      "def", "count", "(", ")", "{", "i", "=", "i", "+", "1", ";", "return", "i", ";", "}", "return", "count", ";", "}",
      "var", "c", "=", "makeCounter", "(", ")", ";", "var", "d", "=", "makeCounter", "(", ")", ";">>

\* print c(); or print d(); for each element of calls
RECURSIVE PrintCalls(_)
PrintCalls(calls) == IF calls = <<>> THEN <<>> ELSE <<"print", Head(calls), "(", ")", ";">> \o PrintCalls(Tail(calls))

\* the k-th call prints how many calls its own counter has had
CounterScenario(calls) ==
    [program |-> MakeCounter \o PrintCalls(calls),
     prints |-> [k \in 1..Len(calls) |-> Digits[Cardinality({j \in 1..k : calls[j] = calls[k]}) + 1]]]

CounterScenarios == {CounterScenario(calls) : calls \in UNION {[1..n -> {"c", "d"}] : n \in 1..MaxCalls}}

\* what stands at the head of the inner loop body, and what the inner loop then prints
InnerKinds ==
    {[code |-> <<>>, prints |-> <<"1", "2", "3">>],
     [code |-> <<"if", "(", "j", "==", "2", ")", "break", ";">>, prints |-> <<"1">>],
     [code |-> <<"if", "(", "j", "==", "2", ")", "continue", ";">>, prints |-> <<"1", "3">>],
     [code |-> <<"if", "(", "j", "==", "2", ")", "{", "{", "break", ";", "}", "}">>, prints |-> <<"1">>],
     [code |-> <<"break", ";">>, prints |-> <<>>],
     [code |-> <<"continue", ";">>, prints |-> <<>>]}

\* what stands after the inner loop, and whether the first and second outer iteration print
OuterKinds ==
    {[code |-> <<>>, first |-> <<"11">>, second |-> TRUE],
     [code |-> <<"if", "(", "i", "==", "1", ")", "break", ";">>, first |-> <<>>, second |-> FALSE],
     [code |-> <<"if", "(", "i", "==", "1", ")", "continue", ";">>, first |-> <<>>, second |-> TRUE]}

\* var i = 0;
\* while (i < 2) { i = i + 1; var j = 0; while (j < 3) { j = j + 1; INNER print j; } OUTER print i + 10; }
\* print "end";
LoopScenario(inner, outer) ==
    [program |-> <<"var", "i", "=", "0", ";", "while", "(", "i", "<", "2", ")", "{", "i", "=", "i", "+", "1", ";",
                   "var", "j", "=", "0", ";", "while", "(", "j", "<", "3", ")", "{", "j", "=", "j", "+", "1", ";">>
                 \o inner.code \o <<"print", "j", ";", "}">> \o outer.code
                 \o <<"print", "i", "+", "10", ";", "}", "print", "\"end\"", ";">>,
     prints |-> inner.prints \o outer.first
                \o (IF outer.second THEN inner.prints \o <<"12">> ELSE <<>>) \o <<"end">>]

LoopScenarios == {LoopScenario(inner, outer) : inner \in InnerKinds, outer \in OuterKinds}

\* def f() { var i = 0; while (i < 2) { i = i + 1; { return i; } print 9; } print 8; } print f(); print 3;
ReturnFromBlockInLoop ==
    [program |-> <<"def", "f", "(", ")", "{", "var", "i", "=", "0", ";", "while", "(", "i", "<", "2", ")", "{",
                   "i", "=", "i", "+", "1", ";", "{", "return", "i", ";", "}", "print", "9", ";", "}", "print", "8", ";", "}",
                   "print", "f", "(", ")", ";", "print", "3", ";">>,
     prints |-> <<"1", "3">>]

\* def f() { while (true) while (true) return 2; } print f();
ReturnFromNestedLoops ==
    [program |-> <<"def", "f", "(", ")", "{", "while", "(", "true", ")", "while", "(", "true", ")", "return", "2", ";", "}",
                   "print", "f", "(", ")", ";">>,
     prints |-> <<"2">>]

\* def f(n) { while (true) { if (n == 1) return "A"; n = n + 1; } } print f(0); print f(1);
ReturnFromIfInLoop ==
    [program |-> <<"def", "f", "(", "n", ")", "{", "while", "(", "true", ")", "{", "if", "(", "n", "==", "1", ")",
                   "return", "\"A\"", ";", "n", "=", "n", "+", "1", ";", "}", "}",
                   "print", "f", "(", "0", ")", ";", "print", "f", "(", "1", ")", ";">>,
     prints |-> <<"A", "A">>]

\* def f() { print 1; return; print 9; } print f();
BareReturn ==
    [program |-> <<"def", "f", "(", ")", "{", "print", "1", ";", "return", ";", "print", "9", ";", "}", "print", "f", "(", ")", ";">>,
     prints |-> <<"1", "nil">>]

\* def f() { print 1; } print f();
NoReturn ==
    [program |-> <<"def", "f", "(", ")", "{", "print", "1", ";", "}", "print", "f", "(", ")", ";">>,
     prints |-> <<"1", "nil">>]

\* def g() { return 4; print 9; } def f() { var x = g(); print x; return 3; } print f();
ReturnFromInnerCall ==
    [program |-> <<"def", "g", "(", ")", "{", "return", "4", ";", "print", "9", ";", "}",
                   "def", "f", "(", ")", "{", "var", "x", "=", "g", "(", ")", ";", "print", "x", ";", "return", "3", ";", "}",
                   "print", "f", "(", ")", ";">>,
     prints |-> <<"4", "3">>]

ReturnScenarios ==
    {ReturnFromBlockInLoop, ReturnFromNestedLoops, ReturnFromIfInLoop, BareReturn, NoReturn, ReturnFromInnerCall}

\* class A { init() { BODY } } var a = A(); print a.x; if (a.init() == a) print 2;
InitBody(body) ==
    [program |-> <<"class", "A", "{", "init", "(", ")", "{">> \o body
                 \o <<"}", "}", "var", "a", "=", "A", "(", ")", ";", "print", "a", ".", "x", ";",
                      "if", "(", "a", ".", "init", "(", ")", "==", "a", ")", "print", "2", ";">>,
     prints |-> <<"1", "2">>]

\* self.x = 1;
InitFallsOffTheEnd == InitBody(<<"self", ".", "x", "=", "1", ";">>)

\* self.x = 1; return; self.x = 2;
InitBareReturn == InitBody(<<"self", ".", "x", "=", "1", ";", "return", ";", "self", ".", "x", "=", "2", ";">>)

\* self.x = 1; while (true) { return; }
InitReturnInLoop == InitBody(<<"self", ".", "x", "=", "1", ";", "while", "(", "true", ")", "{", "return", ";", "}">>)

\* class A { init() { return; } } var a = A(); var b = A(); if (a.init() == a) print 1;
\* if (b.init() == a) print 9; var f = a.init; if (f() == a) print 2; if (A() == a) print 9;
InitOnExistingInstance ==
    [program |-> <<"class", "A", "{", "init", "(", ")", "{", "return", ";", "}", "}",
                   "var", "a", "=", "A", "(", ")", ";", "var", "b", "=", "A", "(", ")", ";",
                   "if", "(", "a", ".", "init", "(", ")", "==", "a", ")", "print", "1", ";",
                   "if", "(", "b", ".", "init", "(", ")", "==", "a", ")", "print", "9", ";",
                   "var", "f", "=", "a", ".", "init", ";", "if", "(", "f", "(", ")", "==", "a", ")", "print", "2", ";",
                   "if", "(", "A", "(", ")", "==", "a", ")", "print", "9", ";">>,
     prints |-> <<"1", "2">>]

\* class A { init(x) { self.x = x; } } class B : A { } class K { } var b = B(1); print b.x; var k = K(); print B(2).x;
InitInherited ==
    [program |-> <<"class", "A", "{", "init", "(", "x", ")", "{", "self", ".", "x", "=", "x", ";", "}", "}",
                   "class", "B", ":", "A", "{", "}", "class", "K", "{", "}",
                   "var", "b", "=", "B", "(", "1", ")", ";", "print", "b", ".", "x", ";",
                   "var", "k", "=", "K", "(", ")", ";", "print", "B", "(", "2", ")", ".", "x", ";">>,
     prints |-> <<"1", "2">>]

InitScenarios == {InitFallsOffTheEnd, InitBareReturn, InitReturnInLoop, InitOnExistingInstance, InitInherited}

\* operands written as literals: nil, the booleans, numbers, strings
LiteralOperands == {"nil", "true", "false", "0", "1", "\"A\"", "\"1\""}

\* def f() { } class K { } var k = K(); var j = K();
ObjectDeclarations ==
    <<"def", "f", "(", ")", "{", "}", "class", "K", "{", "}", "var", "k", "=", "K", "(", ")", ";", "var", "j", "=", "K", "(", ")", ";">>

\* operands that name a function, a class, two instances of it
ObjectOperands == {"f", "K", "k", "j"}

EqualityOperators == {"==", "!="}

NumericOperators == {"-", "*", "/", "<", "<=", ">", ">="}

\* print X OP Y; and print -X; for literal operands, and after ObjectDeclarations for object operands
OperatorPrograms ==
    {<<"print", x, op, y, ";">> : x \in LiteralOperands, y \in LiteralOperands,
                                  op \in EqualityOperators \cup NumericOperators \cup {"+"}}
    \cup {<<"print", "-", x, ";">> : x \in LiteralOperands}
    \cup {ObjectDeclarations \o <<"print", x, op, y, ";">> : x \in ObjectOperands, y \in ObjectOperands \cup {"nil", "1", "\"A\""},
                                                              op \in {"==", "!=", "-", "<", "+"}}
    \cup {ObjectDeclarations \o <<"print", y, op, x, ";">> : x \in ObjectOperands, y \in {"nil", "1", "\"A\""},
                                                              op \in {"==", "*", ">=", "+"}}
    \cup {ObjectDeclarations \o <<"print", "-", x, ";">> : x \in ObjectOperands}

\* short statements, well-formed and ill-formed
StatementPool ==
    {<<"1", "=", "2", ";">>, <<"a", "=", "1", ";">>, <<"print", "1", ";">>, <<"print", ";">>,
     <<"var", "a", ";">>, <<"(", "a", ")", "=", "1", ";">>, <<"print", "1">>}

RECURSIVE Concat(_)
Concat(seqs) == IF seqs = <<>> THEN <<>> ELSE Head(seqs) \o Concat(Tail(seqs))

\* names read and assigned at depths 0, 1 and 2, in their own initializer and after it,
\* with the lines the run prints
DepthScenarios ==
    {
     \* { var a = a = 1; print a; }
     [program |-> <<"{", "var", "a", "=", "a", "=", "1", ";", "print", "a", ";", "}">>,
      prints |-> <<"1">>],
     \* { var a = def() { return a; }(); print a; }
     [program |-> <<"{", "var", "a", "=", "def", "(", ")", "{", "return", "a", ";", "}", "(", ")", ";", "print", "a", ";", "}">>,
      prints |-> <<"nil">>],
     \* { var a = 1; { var b = a = 2; print a + b; } print a; }
     [program |-> <<"{", "var", "a", "=", "1", ";", "{", "var", "b", "=", "a", "=", "2", ";", "print", "a", "+", "b", ";", "}", "print", "a", ";", "}">>,
      prints |-> <<"4", "2">>],
     \* var a = def() { return a; }; print a() == a;
     [program |-> <<"var", "a", "=", "def", "(", ")", "{", "return", "a", ";", "}", ";", "print", "a", "(", ")", "==", "a", ";">>,
      prints |-> <<"True">>],
     \* { var a = def() { return a; }; print a() == a; }
     [program |-> <<"{", "var", "a", "=", "def", "(", ")", "{", "return", "a", ";", "}", ";", "print", "a", "(", ")", "==", "a", ";", "}">>,
      prints |-> <<"True">>],
     \* class A { m() { print 1; } } class B : A { m() { { super . m(); { print self == self; } } } } B() . m();
     [program |-> <<"class", "A", "{", "m", "(", ")", "{", "print", "1", ";", "}", "}", "class", "B", ":", "A", "{", "m", "(", ")", "{", "{", "super", ".", "m", "(", ")", ";", "{", "print", "self", "==", "self", ";", "}", "}", "}", "}", "B", "(", ")", ".", "m", "(", ")", ";">>,
      prints |-> <<"1", "True">>],
     \* { var n = 0; def f() { { n = n + 1; { print n; } } } f(); f(); }
     [program |-> <<"{", "var", "n", "=", "0", ";", "def", "f", "(", ")", "{", "{", "n", "=", "n", "+", "1", ";", "{", "print", "n", ";", "}", "}", "}", "f", "(", ")", ";", "f", "(", ")", ";", "}">>,
      prints |-> <<"1", "2">>]}

\* class declarations with and without a superclass, at top level and in a block, and
\* with a superclass expression that gives a number, nil, an instance, a function or
\* nothing; with the lines the run prints and the RuntimeError it reports ("" for none)
ClassDeclScenarios ==
    {
     \* class A { m() { print 1; } } print A; A() . m();
     [program |-> <<"class", "A", "{", "m", "(", ")", "{", "print", "1", ";", "}", "}", "print", "A", ";", "A", "(", ")", ".", "m", "(", ")", ";">>,
      prints |-> <<"A", "1">>, error |-> ""],
     \* class A { m() { print 1; } } class B : A { n() { super . m(); } } var x = 2; print x; B() . n();
     [program |-> <<"class", "A", "{", "m", "(", ")", "{", "print", "1", ";", "}", "}", "class", "B", ":", "A", "{", "n", "(", ")", "{", "super", ".", "m", "(", ")", ";", "}", "}", "var", "x", "=", "2", ";", "print", "x", ";", "B", "(", ")", ".", "n", "(", ")", ";">>,
      prints |-> <<"2", "1">>, error |-> ""],
     \* var x = 1; class B : x { } print 2;
     [program |-> <<"var", "x", "=", "1", ";", "class", "B", ":", "x", "{", "}", "print", "2", ";">>,
      prints |-> <<>>, error |-> "Superclass must be a class."],
     \* class B : nope { } print 2;
     [program |-> <<"class", "B", ":", "nope", "{", "}", "print", "2", ";">>,
      prints |-> <<>>, error |-> "Undefined variable 'nope'."],
     \* { class A { } class B : A { m() { return B; } } print B() . m() == B; }
     [program |-> <<"{", "class", "A", "{", "}", "class", "B", ":", "A", "{", "m", "(", ")", "{", "return", "B", ";", "}", "}", "print", "B", "(", ")", ".", "m", "(", ")", "==", "B", ";", "}">>,
      prints |-> <<"True">>, error |-> ""],
     \* { var x; class B : x { m() { } } } print 3;
     [program |-> <<"{", "var", "x", ";", "class", "B", ":", "x", "{", "m", "(", ")", "{", "}", "}", "}", "print", "3", ";">>,
      prints |-> <<>>, error |-> "Superclass must be a class."],
     \* class A { } var a = A(); print 1; class B : a { }
     [program |-> <<"class", "A", "{", "}", "var", "a", "=", "A", "(", ")", ";", "print", "1", ";", "class", "B", ":", "a", "{", "}">>,
      prints |-> <<"1">>, error |-> "Superclass must be a class."],
     \* def f() { } class B : f { }
     [program |-> <<"def", "f", "(", ")", "{", "}", "class", "B", ":", "f", "{", "}">>,
      prints |-> <<>>, error |-> "Superclass must be a class."]}

\* chains of three classes, class names declared again with the old class below the new
\* one, a lookup that no class of the chain answers, an arity found two classes up and an
\* attempt to write a class's superclass; with the lines the run prints, the RuntimeError
\* it reports ("" for none) and the number of class objects it makes
ChainScenarios ==
    {
     \* class A { m() { print 1; } } class B : A { } class C : B { } C() . m();
     [program |-> <<"class", "A", "{", "m", "(", ")", "{", "print", "1", ";", "}", "}", "class", "B", ":", "A", "{", "}", "class", "C", ":", "B", "{", "}", "C", "(", ")", ".", "m", "(", ")", ";">>,
      prints |-> <<"1">>, error |-> "", classes |-> 3],
     \* class A { m() { print 1; } } class B : A { } class A : B { m() { print 2; } } A() . m(); B() . m();
     [program |-> <<"class", "A", "{", "m", "(", ")", "{", "print", "1", ";", "}", "}", "class", "B", ":", "A", "{", "}", "class", "A", ":", "B", "{", "m", "(", ")", "{", "print", "2", ";", "}", "}", "A", "(", ")", ".", "m", "(", ")", ";", "B", "(", ")", ".", "m", "(", ")", ";">>,
      prints |-> <<"2", "1">>, error |-> "", classes |-> 3],
     \* class A { } class B : A { } print B() . nope;
     [program |-> <<"class", "A", "{", "}", "class", "B", ":", "A", "{", "}", "print", "B", "(", ")", ".", "nope", ";">>,
      prints |-> <<>>, error |-> "Undefined property 'nope'", classes |-> 2],
     \* class A { init(x ) { print x; } } class B : A { } class C : B { } C(1 ); C();
     [program |-> <<"class", "A", "{", "init", "(", "x", ")", "{", "print", "x", ";", "}", "}", "class", "B", ":", "A", "{", "}", "class", "C", ":", "B", "{", "}", "C", "(", "1", ")", ";", "C", "(", ")", ";">>,
      prints |-> <<"1">>, error |-> "Expected 1 arguments but got 0.", classes |-> 3],
     \* class A { } class B : A { } B . superclass = B; print 1;
     [program |-> <<"class", "A", "{", "}", "class", "B", ":", "A", "{", "}", "B", ".", "superclass", "=", "B", ";", "print", "1", ";">>,
      prints |-> <<>>, error |-> "Only instances have fields.", classes |-> 2],
     \* class A { } class B : A { } var A = B; class B : A { } class A : B { } print A() . nope;
     [program |-> <<"class", "A", "{", "}", "class", "B", ":", "A", "{", "}", "var", "A", "=", "B", ";", "class", "B", ":", "A", "{", "}", "class", "A", ":", "B", "{", "}", "print", "A", "(", ")", ".", "nope", ";">>,
      prints |-> <<>>, error |-> "Undefined property 'nope'", classes |-> 4]}

GeneratedPrograms == {Concat(seqs) : seqs \in UNION {[1..n -> StatementPool] : n \in 0..MaxStmts}}

Programs ==
    BlockPrograms \cup SuperPrograms \cup RedeclareLocalPrograms \cup RedeclareGlobalPrograms \cup ErrorPrograms
    \cup ResolverErrorPrograms \cup OperatorPrograms \cup SyntaxErrorPrograms
    \cup {sc.program : sc \in ScopeScenarios \cup CounterScenarios \cup LoopScenarios \cup ReturnScenarios \cup InitScenarios
                        \cup ReturnKindScenarios \cup ClassKindScenarios
                        \cup PropertyScenarios \cup CallScenarios
                        \cup LogicalScenarios \cup RuntimeErrorScenarios
                        \cup UndefinedScenarios \cup DepthScenarios
                        \cup ClassDeclScenarios \cup ChainScenarios}
    \cup {sc.for_form : sc \in ForScenarios} \cup {sc.while_form : sc \in ForScenarios}
    \cup GeneratedPrograms

---------------------------------------------------------------------------
(* Specifications.  Spec runs the programs above from their tokens; the    *)
(* source of such a run is the sequence of its lexemes.  SpecSource runs   *)
(* sources made of characters through the scanner of lexer/scanner.py.     *)

\* the scanner after Scanner.scan_tokens has produced the tokens of the lexemes
Scanned(lexemes) ==
    [source_code |-> lexemes, tokens |-> Program(lexemes), start |-> Len(lexemes), current |-> Len(lexemes),
     line |-> 1, log |-> <<>>, exc |-> "none"]

Init ==
    /\ source_code \in Programs
    /\ is_repl \in BOOLEAN
    /\ scanner = Scanned(source_code)
    /\ parser = Parser_init(scanner.tokens)
    /\ pc = "parse"
    /\ statements = NoStatements
    /\ resolver = Resolver_init
    /\ interp = Interpreter_init
    /\ ip = 1
    /\ stdout = <<>>
    /\ exit_code = -1

Next ==
    \/ ParseDeclaration
    \/ ParseReturn
    \/ ResolveStatement
    \/ ResolveEnd
    \/ InterpretStatement
    \/ InterpretEnd

Spec == Init /\ [][Next]_vars

SourceChunks ==
    {<<"p", "r", "i", "n", "t", " ", "1", ";">>, <<"@">>, <<"\"">>, <<"a">>, <<"\n">>, <<"1", ".">>, <<"=">>}

\* the words that lexer/token_type.py has a keyword kind for, each as a source of its own
KeywordSources ==
    {<<"a", "n", "d">>, <<"c", "l", "a", "s", "s">>, <<"e", "l", "s", "e">>, <<"f", "a", "l", "s", "e">>,
     <<"f", "o", "r">>, <<"d", "e", "f">>, <<"i", "f">>, <<"n", "i", "l">>, <<"o", "r">>,
     <<"p", "r", "i", "n", "t">>, <<"r", "e", "t", "u", "r", "n">>, <<"s", "u", "p", "e", "r">>,
     <<"s", "e", "l", "f">>, <<"t", "r", "u", "e">>, <<"v", "a", "r">>, <<"w", "h", "i", "l", "e">>,
     <<"b", "r", "e", "a", "k">>, <<"c", "o", "n", "t", "i", "n", "u", "e">>}

\* other words: the `this` of the scanner's table, a prefix of a keyword, keywords with
\* a letter, digit or underscore more, a keyword in upper case
IdentifierSources ==
    {<<"t", "h", "i", "s">>, <<"a", "n">>, <<"c", "l", "a", "s", "s", "y">>, <<"P", "r", "i", "n", "t">>,
     <<"s", "e", "l", "f", "_">>, <<"x", "1">>, <<"_">>, <<"s", "e", "l", "f", "s">>}

\* the characters that are a token of their own
SingleCharacters == {"(", ")", "{", "}", ",", ".", "-", "+", ";", ":", "/", "*"}

\* sources with a digit that is not a decimal digit, and sources that end inside a
\* token: a comment, a string over two lines, a number before a point, one of two characters
EdgeSources ==
    {<<"SUPERSCRIPT TWO">>, <<"1", "SUPERSCRIPT TWO", ";">>, <<"1", ".", "SUPERSCRIPT TWO">>,
     <<"/", "/", "a">>, <<"/", "/", "a", "\n", "1">>, <<"\"", "a", "\n", "b">>, <<"\"", "\n", "\"", "!">>,
     <<"1", ".", "5", ".">>, <<"!", "=", "=", "<">>, <<"a", "1", "@", "\t">>}

Sources ==
    {Concat(chunks) : chunks \in UNION {[1..n -> SourceChunks] : n \in 0..MaxChunks}}
    \cup KeywordSources \cup IdentifierSources \cup {<<c>> : c \in SingleCharacters} \cup EdgeSources

InitSource ==
    /\ source_code \in Sources
    /\ is_repl \in BOOLEAN
    /\ scanner = Scanner_init(source_code)
    /\ parser = Parser_init(<<>>)
    /\ pc = "scan"
    /\ statements = NoStatements
    /\ resolver = Resolver_init
    /\ interp = Interpreter_init
    /\ ip = 1
    /\ stdout = <<>>
    /\ exit_code = -1

NextSource ==
    \/ ScanToken
    \/ ScanEnd
    \/ ParseDeclaration
    \/ ParseReturn
    \/ ResolveStatement
    \/ ResolveEnd
    \/ InterpretStatement
    \/ InterpretEnd

SpecSource == InitSource /\ [][NextSource]_vars

\* the lines print has written
Printed == [i \in 1..Len(SelectSeq(stdout, LAMBDA l : l.kind = "print")) |-> SelectSeq(stdout, LAMBDA l : l.kind = "print")[i].text]

---------------------------------------------------------------------------
(* Properties.                                                             *)

\* Logger.error has written a line of this kind
Reported(kind) == \E i \in DOMAIN stdout : stdout[i].kind = kind

\* run() is over: the process has ended, or run() has returned to the REPL
Finished == pc \in {"exit", "returned"}

\* the loops that enclose the signal of event i inside its own function activation: none
StraySignal(i) ==
    /\ interp.trace[i].e = "signal"
    /\ \/ interp.trace[i].loops = <<>>
       \/ interp.trace[i].loops[Len(interp.trace[i].loops)] = 0

\* event j is a loop deciding to go on (its condition is evaluated) or ending normally
LoopEvent(j) ==
    \/ interp.trace[j].e = "cond"
    \/ interp.trace[j].e = "while_exit" /\ interp.trace[j].sig = "ok"

\* C1: whenever a Block statement or a function body has been left, however it was left,
\* the environment pointer is the one from before the block was entered.
C1_EnvironmentRestored ==
    \A i \in DOMAIN interp.trace :
        interp.trace[i].e \in {"block_exit", "call_exit"} => interp.trace[i].after = interp.trace[i].before

\* a function body and the block around its call have both been left by a Break signal
C1_Witness ==
    /\ \E i \in DOMAIN interp.trace : interp.trace[i].e = "call_exit" /\ interp.trace[i].sig = "Break"
    /\ \E i \in DOMAIN interp.trace :
        /\ interp.trace[i].e = "block_exit"
        /\ interp.trace[i].sig = "Break"
        /\ interp.trace[i].after = interp.trace[i].before

\* C2: `super.m` binds the method to the instance the running method was invoked on,
\* which is the value of `self` one environment nearer than `super`.
C2_SuperBindsSelf ==
    \A i \in DOMAIN interp.trace :
        interp.trace[i].e = "super" =>
            /\ interp.trace[i].self.t = "inst"
            /\ interp.trace[i].obj = interp.trace[i].self

\* C3: a break or continue with no loop around it in its own function ends the program
\* with a RuntimeError; no loop of a caller ends or goes on after it.
C3_StraySignalEndsProgram ==
    \A i \in DOMAIN interp.trace :
        StraySignal(i) =>
            /\ \A j \in (i + 1)..Len(interp.trace) : ~LoopEvent(j)
            /\ Finished => stdout # <<>> /\ stdout[Len(stdout)].kind = "RuntimeError"

\* C4: once Parser.parse has returned, a reported SyntaxError means it returned None.
C4_SyntaxErrorMeansNone ==
    (pc \notin {"scan", "parse"} /\ Reported("SyntaxError")) => statements.is_none

\* C5: in file mode the exit code is 64 after a parser or resolver error, 70 after a
\* RuntimeError and 0 otherwise.
C5_ExitCodes ==
    (pc = "exit" /\ ~is_repl) =>
        exit_code = IF Reported("SyntaxError") \/ Reported("ResolverError") THEN 64
                    ELSE IF Reported("RuntimeError") THEN 70
                    ELSE 0

\* C6: after a LexicalError no statement of the source is executed and the program
\* prints nothing.
C6_LexicalErrorAborts ==
    Reported("LexicalError") => Printed = <<>> /\ (pc = "interpret" => ip = 1)

\* C7: a second declaration of a name in one non-global scope is a logged ResolverError,
\* handled like the others (the process ends with the resolver's exit code, the REPL
\* goes on); a second declaration at global scope is accepted.
C7_RedeclarationIsResolverError ==
    /\ (source_code \in RedeclareLocalPrograms /\ Finished) =>
            /\ Reported("ResolverError")
            /\ IF is_repl THEN pc = "returned" ELSE exit_code \in {64, 70}
    /\ (source_code \in RedeclareGlobalPrograms /\ Finished) =>
            /\ ~Reported("ResolverError")
            /\ is_repl \/ exit_code = 0

\* C8: a name that no enclosing local scope declares when the function is resolved is
\* read from (and assigned in) the global scope on every call, also after a later var of
\* that name in the enclosing block: each scenario prints what static scoping prints.
C8_StaticResolution ==
    \A sc \in ScopeScenarios :
        (source_code = sc.program /\ Finished) => stdout = [i \in DOMAIN sc.prints |-> LogLine("print", 0, sc.prints[i])]

\* the scenario of the specification has run to its end and printed
C8_Witness ==
    /\ source_code = ShadowAfterDeclaration(1).program
    /\ pc = "exit"
    /\ Printed = <<"global", "global">>

\* C9: the calls of one counter see each other's assignments (1, 2, 3, ..) and the
\* counters of two calls of makeCounter do not share their variable.
C9_ClosuresByReference ==
    \A sc \in CounterScenarios :
        (source_code = sc.program /\ Finished) => stdout = [i \in DOMAIN sc.prints |-> LogLine("print", 0, sc.prints[i])]

\* c(), d(), c() has printed 1, 1, 2
C9_Witness ==
    /\ source_code = CounterScenario(<<"c", "d", "c">>).program
    /\ pc = "exit"
    /\ Printed = <<"1", "1", "2">>

\* C10: after a break inside a loop of the running function the next thing any loop does
\* is the normal end of that innermost loop; after a continue it is the evaluation of
\* that loop's condition; the nested-loop scenarios print what this predicts.
C10_InnermostLoopOnly ==
    /\ \A i \in DOMAIN interp.trace :
        (interp.trace[i].e = "signal" /\ ~StraySignal(i)) =>
            \E j \in (i + 1)..Len(interp.trace) :
                /\ interp.trace[j].e \in {"cond", "while_exit"}
                /\ \A k \in (i + 1)..(j - 1) : interp.trace[k].e \notin {"cond", "while_exit"}
                /\ interp.trace[j].w = interp.trace[i].loops[Len(interp.trace[i].loops)]
                /\ IF interp.trace[i].kind = "Break"
                   THEN interp.trace[j].e = "while_exit" /\ interp.trace[j].sig = "ok"
                   ELSE interp.trace[j].e = "cond"
    /\ \A sc \in LoopScenarios :
        (source_code = sc.program /\ Finished) => stdout = [i \in DOMAIN sc.prints |-> LogLine("print", 0, sc.prints[i])]

\* a break in the inner of two loops, the outer loop went on, the run has ended
C10_Witness ==
    /\ pc = "exit"
    /\ exit_code = 0
    /\ \E i \in DOMAIN interp.trace :
        /\ interp.trace[i].e = "signal"
        /\ interp.trace[i].kind = "Break"
        /\ Len(interp.trace[i].loops) = 2
        /\ \E j \in (i + 1)..Len(interp.trace) :
            interp.trace[j].e = "cond" /\ interp.trace[j].w = interp.trace[i].loops[1]


\* event i is a return statement executed inside a call
ReturnEvent(i) == interp.trace[i].e = "return" /\ interp.trace[i].depth > 0

\* the end of the call that the return of event i belongs to: the first call_exit of
\* that depth after it (0 when there is none)
CallExitOf(i) ==
    LET js == {j \in (i + 1)..Len(interp.trace) :
                  interp.trace[j].e = "call_exit" /\ interp.trace[j].depth = interp.trace[i].depth}
    IN  IF js = {} THEN 0 ELSE CHOOSE j \in js : \A k \in js : j <= k

\* C11: after `return v` inside a call nothing happens but the leaving of the enclosing
\* blocks and loops (no loop tests its condition again, nothing is printed, nothing else
\* is executed) until the call ends, and the call gives v (nil for a bare return) unless
\* the function is an initializer; a body that ends without return gives nil; the
\* return scenarios print what this predicts.
C11_ReturnEndsCall ==
    /\ \A i \in DOMAIN interp.trace :
        ReturnEvent(i) =>
            /\ CallExitOf(i) # 0
            /\ \A k \in (i + 1)..(CallExitOf(i) - 1) :
                  interp.trace[k].e \in {"block_exit", "while_exit"} /\ interp.trace[k].sig = "Return"
            /\ interp.trace[CallExitOf(i)].nout = interp.trace[i].nout
            /\ interp.trace[CallExitOf(i)].sig = "Return"
            /\ ~interp.trace[CallExitOf(i)].is_initializer =>
                  /\ interp.trace[CallExitOf(i)].result = "ok"
                  /\ interp.trace[CallExitOf(i)].value = interp.trace[i].value
    /\ \A j \in DOMAIN interp.trace :
        (interp.trace[j].e = "call_exit" /\ interp.trace[j].sig = "ok" /\ ~interp.trace[j].is_initializer) =>
            interp.trace[j].result = "ok" /\ interp.trace[j].value = Nil
    /\ \A sc \in ReturnScenarios :
        (source_code = sc.program /\ Finished) => stdout = [i \in DOMAIN sc.prints |-> LogLine("print", 0, sc.prints[i])]

\* a return with a value has left a block and a loop of its function, and the run has
\* ended having printed the value
C11_Witness ==
    /\ source_code = ReturnFromBlockInLoop.program
    /\ pc = "exit"
    /\ Printed = <<"1", "3">>
    /\ \E i \in DOMAIN interp.trace :
        /\ ReturnEvent(i)
        /\ interp.trace[i].value = Num(1)
        /\ interp.trace[i + 1].e = "block_exit"
        /\ \E k \in (i + 1)..(CallExitOf(i) - 1) : interp.trace[k].e = "while_exit"

\* C12: a call of a class that ends normally gives the instance it has just constructed;
\* a call of an `init` method whose body falls off the end or executes a bare return
\* gives the instance the method is bound to, also when `init` is called on an instance
\* that exists already; the initializer scenarios print what this predicts.
C12_InitializerGivesInstance ==
    /\ \A i \in DOMAIN interp.trace :
        (interp.trace[i].e = "class_call" /\ interp.trace[i].result = "ok") =>
            /\ interp.trace[i].value = interp.trace[i].instance
            /\ interp.trace[i].instance = InstRef(interp.trace[i].insts + 1)
    /\ \A i \in DOMAIN interp.trace :
        (interp.trace[i].e = "call_exit" /\ interp.trace[i].is_initializer /\ interp.trace[i].sig \in {"ok", "Return"}) =>
            /\ interp.trace[i].result = "ok"
            /\ interp.trace[i].value = interp.trace[i].self
    /\ \A sc \in InitScenarios :
        (source_code = sc.program /\ Finished) => stdout = [i \in DOMAIN sc.prints |-> LogLine("print", 0, sc.prints[i])]

\* `init` with a bare return has been called on the first of two existing instances, on
\* its own and not through a class call, and has given that instance
C12_Witness ==
    /\ source_code = InitOnExistingInstance.program
    /\ pc = "exit"
    /\ Printed = <<"1", "2">>
    /\ \E i \in DOMAIN interp.trace :
        /\ interp.trace[i].e = "call_exit"
        /\ interp.trace[i].is_initializer
        /\ interp.trace[i].sig = "Return"
        /\ interp.trace[i].value = InstRef(1)
        /\ Len(interp.insts) >= 2
        /\ i < Len(interp.trace) => interp.trace[i + 1].e # "class_call"

\* C13: once the resolver has raised a ResolverError the run is over, and no statement
\* of the program has been executed: nothing is printed and the interpreter is as it
\* was constructed; a statement is executed only when every statement is resolved.
C13_ResolveBeforeExecute ==
    /\ Reported("ResolverError") =>
            /\ Finished
            /\ Printed = <<>>
            /\ [interp EXCEPT !.locals = <<>>] = Interpreter_init
    /\ pc = "interpret" => Len(resolver.scopes) = 0 /\ ~Reported("ResolverError")

\* a program whose first statement prints and whose later statement is rejected has
\* ended with the error reported
C13_Witness ==
    /\ source_code \in ResolverErrorPrograms
    /\ Finished
    /\ Reported("ResolverError")
    /\ statements.stmts[1].k \in {"PrintStmt", "VarStmt"}

\* event i is the application of a binary operator of the set ops
BinaryEvent(i, ops) ==
    interp.trace[i].e = "operator" /\ interp.trace[i].arity = 2 /\ interp.trace[i].op \in ops

\* both nil, or the same type among Number, String and Bool with equal values, or the
\* same function, class or instance
EqualValues(a, b) == a.t = b.t /\ a.v = b.v

\* C14: `a == b` is true exactly when both are nil, or both have the same type among
\* Number, String, Bool and equal values, or both are the same function, class or
\* instance; across types it is false; `a != b` is its negation.
C14_Equality ==
    \A i \in DOMAIN interp.trace :
        BinaryEvent(i, {"EQUAL_EQUAL", "BANG_EQUAL"}) =>
            /\ interp.trace[i].result = "ok"
            /\ interp.trace[i].value =
                  Bool(EqualValues(interp.trace[i].operands[1], interp.trace[i].operands[2])
                       <=> interp.trace[i].op = "EQUAL_EQUAL")

\* event i is the application of unary minus
NegationEvent(i) ==
    interp.trace[i].e = "operator" /\ interp.trace[i].arity = 1 /\ interp.trace[i].op = "MINUS"

\* some operand of event i is not a Number
NonNumberOperand(i) == \E k \in DOMAIN interp.trace[i].operands : interp.trace[i].operands[k].t # "num"

\* C15: `-`, `*`, `/`, `<`, `<=`, `>`, `>=` and unary minus applied to an operand that is
\* not a Number (a Bool, nil, a String, a function, a class, an instance) raise a
\* RuntimeError.
C15_NumberOperandsOnly ==
    \A i \in DOMAIN interp.trace :
        ((BinaryEvent(i, {"MINUS", "STAR", "SLASH", "LESS", "LESS_EQUAL", "GREATER", "GREATER_EQUAL"}) \/ NegationEvent(i))
         /\ NonNumberOperand(i)) =>
            interp.trace[i].result = "InterpreterRuntimeError"

\* the text of a value as the specification has print write it: nil, true and false in
\* lower case, a whole number without ".0"; an object as Interpreter._stringify gives it
PrintedText(v) ==
    CASE v.t = "nil" -> "nil"
      [] v.t = "bool" -> IF v.v THEN "true" ELSE "false"
      [] v.t = "str" -> v.v
      [] OTHER -> Interpreter_stringify(interp, v)

\* C16: `a + b` with exactly one String operand is the concatenation, in operand order,
\* of the string and the other operand's text as print writes it; with no String operand
\* and not two Numbers it raises a RuntimeError.
C16_PlusWithString ==
    \A i \in DOMAIN interp.trace :
        BinaryEvent(i, {"PLUS"}) =>
            LET a == interp.trace[i].operands[1]
                b == interp.trace[i].operands[2]
            IN  /\ (a.t = "str") # (b.t = "str") =>
                      /\ interp.trace[i].result = "ok"
                      /\ interp.trace[i].value = Str(PrintedText(a) \o PrintedText(b))
                /\ (a.t # "str" /\ b.t # "str" /\ ~(a.t = "num" /\ b.t = "num")) =>
                      interp.trace[i].result = "InterpreterRuntimeError"

\* the source as one string
SourceText == Slice(source_code, 0, Len(source_code))

\* C17: a word is scanned to its keyword kind when it is one of the 18 keywords and to
\* IDENTIFIER otherwise; each of the characters ( ) { } , . - + ; : / * on its own is
\* scanned to the token kind of that character, with no LexicalError.
C17_KeywordsAndSingleCharacters ==
    pc # "scan" =>
        /\ source_code \in KeywordSources \cup IdentifierSources =>
              scanner.tokens = <<Token(IF SourceText \in DOMAIN Keywords THEN Keywords[SourceText] ELSE "IDENTIFIER",
                                       SourceText, Nil, 1),
                                 Token("EOF", "", Nil, 1)>>
        /\ (Len(source_code) = 1 /\ source_code[1] \in SingleCharacters) =>
              /\ scanner.tokens = <<Token(Punctuation[SourceText], SourceText, Nil, 1), Token("EOF", "", Nil, 1)>>
              /\ ~Reported("LexicalError")

\* an end-of-file token
IsEOF(token) == token.token_type = "EOF"

\* C18: the scanner's cursor never exceeds the length of the source, every scan step has
\* consumed at least one character, and once scanning is over the tokens end with an
\* EOF token and hold exactly one, also when lexical errors were reported.
C18_ScannerTerminatesWithEOF ==
    /\ scanner.current <= Len(scanner.source_code)
    /\ scanner.start <= scanner.current
    /\ (pc = "scan" /\ scanner.current > 0) => scanner.start < scanner.current
    /\ pc # "scan" =>
          /\ scanner.tokens # <<>>
          /\ IsEOF(scanner.tokens[Len(scanner.tokens)])
          /\ Cardinality({i \in DOMAIN scanner.tokens : IsEOF(scanner.tokens[i])}) = 1

\* the cursor is on a token, and no EOF token lies before it
CursorInRange ==
    /\ parser.current < Len(parser.tokens)
    /\ \A i \in 1..parser.current : parser.tokens[i].token_type # "EOF"

\* every recovery so far has left the cursor beyond the token of its error, or on that
\* token when it is EOF
RecoveriesAdvance ==
    \A i \in DOMAIN parser.recoveries :
        IF parser.recoveries[i].token_type = "EOF"
        THEN parser.recoveries[i].after = parser.recoveries[i].at
        ELSE parser.recoveries[i].after > parser.recoveries[i].at

\* one step of the parse loop moves the cursor forward; no step moves it back
CursorMoves ==
    (pc = "parse" /\ parser'.tokens = parser.tokens) =>
        /\ parser'.current >= parser.current
        /\ pc' = "parse" => parser'.current > parser.current

\* C19: once the parser has its tokens, the cursor never moves back and never past the EOF token, every
\* recovery leaves it beyond the token of the error unless that token is EOF, and every
\* iteration of the loop of Parser.parse moves it forward, so that the loop ends.
C19_ParserProgress == [](parser.tokens # <<>> => CursorInRange /\ RecoveriesAdvance) /\ [][CursorMoves]_vars

\* a syntax error at a token that recovery stops at (a keyword) has been recovered from,
\* an error at EOF too, and parsing is over
C19_Witness ==
    /\ pc \notin {"scan", "parse"}
    /\ parser.tokens # <<>>
    /\ \E i \in DOMAIN parser.recoveries :
        /\ parser.recoveries[i].token_type \in {"PRINT", "VAR", "IF"}
        /\ parser.recoveries[i].after = parser.recoveries[i].at + 1
    /\ \E i \in DOMAIN parser.recoveries : parser.recoveries[i].token_type = "EOF"

\* C20: the resolver rejects a return statement exactly when the function kind is NONE,
\* or it is INITIALIZER and the return has a value; outside every scope the kind is NONE
\* again after any function or class declaration; the scenarios (a top-level return
\* after a function declaration, a return with a value in a function nested in `init`,
\* and in `init` after it) are rejected or accepted as this predicts.
C20_ReturnByFunctionKind ==
    /\ \A i \in DOMAIN resolver.returns :
        /\ resolver.returns[i].rejected <=>
              \/ resolver.returns[i].current_function = "NONE"
              \/ resolver.returns[i].current_function = "INITIALIZER" /\ resolver.returns[i].has_value
        /\ resolver.returns[i].scopes = 0 => resolver.returns[i].current_function = "NONE"
    /\ (pc = "resolve" /\ Len(resolver.scopes) = 0) => resolver.current_function = "NONE"
    /\ \A sc \in ReturnKindScenarios :
        (source_code = sc.program /\ Finished) =>
            /\ Reported("ResolverError") <=> sc.rejected
            /\ Printed = sc.prints

\* a return with a value in a function nested inside `init` has been accepted, and the
\* return with a value of `init` itself after it has been rejected
C20_Witness ==
    /\ Finished
    /\ Reported("ResolverError")
    /\ Len(resolver.returns) = 2
    /\ resolver.returns[1] = [current_function |-> "FUNCTION", scopes |-> 3, has_value |-> TRUE, rejected |-> FALSE]
    /\ resolver.returns[2] = [current_function |-> "INITIALIZER", scopes |-> 2, has_value |-> TRUE, rejected |-> TRUE]

\* C21: the resolver rejects `self` exactly when the class kind is NONE and `super`
\* exactly when it is NONE or CLASS; every class declaration resolved to its end leaves
\* the class kind it found, so the kind is NONE between top-level statements and at
\* every node visited outside all scopes; the scenarios (`self` and `super` after the
\* end of a class body, and in a method after a nested class declaration) are rejected
\* or accepted by the kind of the enclosing class.
C21_SelfSuperByClassKind ==
    /\ \A i \in DOMAIN resolver.kinds :
        /\ resolver.kinds[i].node = "Self" =>
              (resolver.kinds[i].rejected <=> resolver.kinds[i].current_class = "NONE")
        /\ resolver.kinds[i].node = "Super" =>
              (resolver.kinds[i].rejected <=> resolver.kinds[i].current_class \in {"NONE", "CLASS"})
        /\ resolver.kinds[i].node = "ClassStmt" => resolver.kinds[i].after = resolver.kinds[i].current_class
        /\ resolver.kinds[i].scopes = 0 => resolver.kinds[i].current_class = "NONE"
    /\ (pc = "resolve" /\ Len(resolver.scopes) = 0) => resolver.current_class = "NONE"
    /\ \A sc \in ClassKindScenarios :
        (source_code = sc.program /\ Finished) => (Reported("ResolverError") <=> sc.rejected)

\* a class declared inside a method of a class without superclass has been resolved as a
\* subclass, and the `super` that follows it in the method has been rejected at kind CLASS
C21_Witness ==
    /\ Finished
    /\ Reported("ResolverError")
    /\ Len(resolver.kinds) = 2
    /\ resolver.kinds[1].node = "ClassStmt" /\ resolver.kinds[1].after = "CLASS"
    /\ resolver.kinds[2].node = "Super" /\ resolver.kinds[2].current_class = "CLASS" /\ resolver.kinds[2].rejected

\* the class objects from the class of instance i up its superclass chain, nearest first
RECURSIVE ClassChain(_)
ClassChain(c) == IF c = 0 THEN <<>> ELSE <<c>> \o ClassChain(interp.classes[c].superclass)

\* the method `name` of the first class of the chain that has one; 0 when none has
NearestMethod(chain, name) ==
    LET having == {k \in DOMAIN chain : name \in DOMAIN interp.classes[chain[k]].methods}
    IN  IF having = {} THEN 0
        ELSE interp.classes[chain[CHOOSE k \in having : \A l \in having : k <= l]].methods[name]

\* the last write of property `name` of `instance` before event j; 0 when there is none
LastSet(j, instance, name) ==
    LET sets == {i \in 1..(j - 1) : /\ interp.trace[i].e = "set"
                                    /\ interp.trace[i].instance = instance
                                    /\ interp.trace[i].name = name}
    IN  IF sets = {} THEN 0 ELSE CHOOSE i \in sets : \A k \in sets : k <= i

\* property read j gave a function allocated by the read itself: the declaration of method,
\* in an environment that holds `self` = the instance and encloses the closure of method
NewBoundMethod(j, method) ==
    LET g == interp.trace[j]
    IN  /\ g.result = "ok"
        /\ g.value.t = "fn"
        /\ g.value.v = g.fns + 1
        /\ interp.fns[g.value.v].declaration = interp.fns[method].declaration
        /\ interp.envs[interp.fns[g.value.v].closure].values = ("self" :> InstRef(g.instance))
        /\ interp.envs[interp.fns[g.value.v].closure].enclosing = interp.fns[method].closure

\* C22: a property read gives the value last written to that property of the instance
\* when there is one, also when a class of the chain has a method of that name;
\* otherwise a function newly allocated by the read, which is the method of the nearest
\* class of the chain bound to the instance; otherwise it raises a RuntimeError.  The
\* scenarios print what this predicts.
C22_PropertyAccess ==
    /\ \A j \in DOMAIN interp.trace :
        interp.trace[j].e = "get" =>
            LET g == interp.trace[j]
                w == LastSet(j, g.instance, g.name)
                method == NearestMethod(ClassChain(interp.insts[g.instance].klass), g.name)
            IN  /\ (w # 0) <=> (g.name \in DOMAIN g.fields)
                /\ w # 0 => g.result = "ok" /\ g.value = interp.trace[w].value
                /\ (w = 0 /\ method # 0) => NewBoundMethod(j, method)
                /\ (w = 0 /\ method = 0) => g.result = "InterpreterRuntimeError"
    /\ \A sc \in PropertyScenarios :
        (source_code = sc.program /\ Finished) =>
            /\ Printed = sc.prints
            /\ Reported("RuntimeError") <=> Len(sc.prints) < 3

\* a property that a field and an inherited-over method both name has been read as the
\* field, and a method of the superclass has been read through an instance of the subclass
C22_Witness ==
    /\ Finished
    /\ \E j \in DOMAIN interp.trace :
        /\ interp.trace[j].e = "get"
        /\ interp.trace[j].name = "m"
        /\ "m" \in DOMAIN interp.trace[j].fields
        /\ interp.trace[j].value = Num(10)
    /\ \E j \in DOMAIN interp.trace :
        /\ interp.trace[j].e = "get"
        /\ interp.trace[j].name = "m"
        /\ interp.trace[j].fields = <<>>
        /\ interp.trace[j].result = "ok"

\* the number of arguments a callee value takes: the parameters of a function, the
\* parameters of the `init` nearest in the chain of a class, or none
ExpectedArity(callee) ==
    CASE callee.t = "fn" -> Len(interp.fns[callee.v].declaration.params)
      [] callee.t = "class" ->
            LET init == NearestMethod(ClassChain(callee.v), "init")
            IN  IF init = 0 THEN 0 ELSE Len(interp.fns[init].declaration.params)
      [] OTHER -> 0

\* the call of event i has a callee that is no function or class, or the wrong number of arguments
MustBeRejected(i) ==
    \/ interp.trace[i].callee.t \notin {"fn", "class", "clock"}
    \/ Len(interp.trace[i].arguments) # ExpectedArity(interp.trace[i].callee)

\* C23: a call whose callee is not a function or class, or whose number of arguments is not
\* the callee's arity (for a class the arity of the `init` of its chain, else 0), raises a
\* RuntimeError with nothing printed, no instance constructed and no event of a body since
\* the arguments were evaluated; every other call enters the callee.  The scenarios print
\* the callee first and then the arguments from left to right, and report the error.
C23_CallChecks ==
    /\ \A i \in DOMAIN interp.trace :
        interp.trace[i].e = "call" =>
            IF MustBeRejected(i)
            THEN /\ interp.trace[i].result = "InterpreterRuntimeError"
                 /\ interp.trace[i].nout_after = interp.trace[i].nout
                 /\ interp.trace[i].insts_after = interp.trace[i].insts
                 /\ interp.trace[i].events_after = interp.trace[i].events
            ELSE /\ interp.trace[i].callee.t = "class" => interp.trace[i].insts_after > interp.trace[i].insts
                 /\ interp.trace[i].callee.t = "fn" =>
                        \/ interp.trace[i].events_after > interp.trace[i].events
                        \/ interp.trace[i].result = "RecursionError"
    /\ \A sc \in CallScenarios :
        (source_code = sc.program /\ Finished) =>
            /\ Printed = sc.prints
            /\ Reported("RuntimeError") <=> sc.error # ""
            /\ sc.error # "" => stdout[Len(stdout)].text = sc.error

\* a class without `init` of its own has been called with no argument where the `init` of
\* its superclass takes one, and the call has been rejected with no instance constructed
C23_Witness ==
    /\ Finished
    /\ interp.insts = <<>>
    /\ \E i \in DOMAIN interp.trace :
        /\ interp.trace[i].e = "call"
        /\ interp.trace[i].callee.t = "class"
        /\ "init" \notin DOMAIN interp.classes[interp.trace[i].callee.v].methods
        /\ interp.trace[i].arguments = <<>>
        /\ interp.trace[i].result = "InterpreterRuntimeError"
        /\ interp.trace[i].message = "Expected 1 arguments but got 0."

\* nil and false are falsy, every other value is truthy
Truthy(v) == v # Nil /\ v # Bool(FALSE)

\* the `and`/`or` of event i gives its left value without a look at the right operand
ShortCircuits(i) ==
    \/ interp.trace[i].op = "OR" /\ Truthy(interp.trace[i].left)
    \/ interp.trace[i].op = "AND" /\ ~Truthy(interp.trace[i].left)

\* C24: `a or b` with a truthy a and `a and b` with a falsy a give the value of a, with no
\* event and no change of the interpreter's state since a was evaluated (b is not
\* evaluated); otherwise b is evaluated next and the expression gives the value of b.
\* The scenarios print the operands that were evaluated and the value chosen.
C24_ShortCircuit ==
    /\ \A i \in DOMAIN interp.trace :
        interp.trace[i].e = "logical" =>
            IF ShortCircuits(i)
            THEN /\ interp.trace[i].result = "ok"
                 /\ interp.trace[i].value = interp.trace[i].left
                 /\ interp.trace[i].events = i - 1
                 /\ interp.trace[i].same
            ELSE /\ interp.trace[i].events < i - 1
                 /\ interp.trace[i - 1].e = "logical_right"
                 /\ interp.trace[i].result = interp.trace[i - 1].result
                 /\ interp.trace[i].value = interp.trace[i - 1].value
    /\ \A sc \in LogicalScenarios :
        (source_code = sc.program /\ Finished) => Printed = sc.prints

\* an `or` with a truthy left operand and an `and` with a falsy one have given their left
\* values with an assignment as right operand, and an `or` with nil has given its right value
C24_Witness ==
    /\ Finished
    /\ "a" \in DOMAIN interp.envs[1].values
    /\ interp.envs[1].values["a"] = Num(4)
    /\ \E i \in DOMAIN interp.trace :
        interp.trace[i].e = "logical" /\ interp.trace[i].op = "OR" /\ interp.trace[i].value = Bool(TRUE)
    /\ \E i \in DOMAIN interp.trace :
        interp.trace[i].e = "logical" /\ interp.trace[i].op = "AND" /\ interp.trace[i].value = Nil
    /\ \E i \in DOMAIN interp.trace :
        interp.trace[i].e = "logical" /\ interp.trace[i].op = "OR" /\ interp.trace[i].value = Num(4)

\* the RuntimeError lines of the output
RuntimeErrorLines == {i \in DOMAIN stdout : stdout[i].kind = "RuntimeError"}

\* at most one RuntimeError is reported; once it is, it is the last line of the output,
\* interpret is over and the statement that raised is the one ip stands on; and the
\* current environment is the globals environment between top-level statements
StoppedAtFirstError ==
    /\ interp.environment = interp.globals
    /\ Cardinality(RuntimeErrorLines) <= 1
    /\ RuntimeErrorLines # {} =>
          /\ pc \in {"exit", "returned"}
          /\ RuntimeErrorLines = {Len(stdout)}
          /\ ip <= Len(statements.stmts)
    /\ \A sc \in RuntimeErrorScenarios :
        (source_code = sc.program /\ Finished) =>
            /\ Printed = sc.prints
            /\ ip = sc.at
            /\ Reported("RuntimeError") <=> sc.error # ""
            /\ sc.error # "" => stdout[Len(stdout)].text = sc.error

\* one step of interpret executes the statement ip stands on: ip moves on by one or the
\* loop is left with ip unchanged, and what was printed stays printed
InSourceOrder ==
    pc = "interpret" =>
        /\ \/ pc' = "interpret" /\ ip' = ip + 1
           \/ pc' # "interpret" /\ ip' = ip
        /\ Len(stdout') >= Len(stdout)
        /\ SubSeq(stdout', 1, Len(stdout)) = stdout

\* C25: interpret executes the top-level statements one after the other in source order
\* and stops at the first RuntimeError: the statement that raised is the last one
\* executed, the lines printed before the error stay in the output, the error is reported
\* exactly once, as the last line, and the current environment is the globals environment
\* when interpret is left.
C25_StopsAtFirstRuntimeError == []StoppedAtFirstError /\ [][InSourceOrder]_vars

\* a RuntimeError raised in a block of a function called from a loop, after two lines were
\* printed, has ended the run at the fourth top-level statement of five
C25_Witness ==
    /\ Finished
    /\ ip = 4
    /\ Len(statements.stmts) = 5
    /\ Printed = <<"1", "2">>
    /\ Len(stdout) = 3
    /\ stdout[3].kind = "RuntimeError"
    /\ Len(interp.envs) > 1
    /\ interp.environment = interp.globals

\* the read or assignment of event i is of a name without a depth from the resolver that
\* globals does not define
UndefinedAccess(i) ==
    /\ interp.trace[i].e \in {"read", "assign"}
    /\ ~interp.trace[i].resolved
    /\ ~interp.trace[i].in_globals

\* no environment binds the name
Unbound(name) == \A env \in DOMAIN interp.envs : name \notin DOMAIN interp.envs[env].values

\* C26: a read or an assignment of a name that has no depth recorded by the resolver and
\* that globals does not define raises RuntimeError "Undefined variable 'X'." and leaves
\* the value maps of all environments as they were when the access began (for an
\* assignment: once its value was evaluated); with the name defined in globals the access
\* succeeds.  In the scenarios the failed assignment binds the name in no environment and
\* leaves the other globals as they were.
C26_UndefinedVariable ==
    /\ \A i \in DOMAIN interp.trace :
        (interp.trace[i].e \in {"read", "assign"} /\ ~interp.trace[i].resolved) =>
            IF UndefinedAccess(i)
            THEN /\ interp.trace[i].result = "InterpreterRuntimeError"
                 /\ interp.trace[i].message = "Undefined variable '" \o interp.trace[i].name \o "'."
                 /\ interp.trace[i].same
            ELSE interp.trace[i].result = "ok"
    /\ \A sc \in UndefinedScenarios :
        (source_code = sc.program /\ Finished) =>
            /\ Printed = sc.prints
            /\ Reported("RuntimeError") <=> sc.error
            /\ Unbound("nope")
            /\ interp.envs[interp.globals].values["a"] = Num(sc.a)
            /\ sc.error => \E i \in DOMAIN interp.trace : UndefinedAccess(i)

\* an assignment to an undeclared name inside a function has failed after a line was
\* printed, and no environment binds the name
C26_Witness ==
    /\ Finished
    /\ Printed = <<"1">>
    /\ Len(interp.envs) > 1
    /\ Unbound("nope")
    /\ \E i \in DOMAIN interp.trace :
        /\ UndefinedAccess(i)
        /\ interp.trace[i].e = "assign"
        /\ interp.trace[i].name = "nope"
        /\ interp.trace[i].result = "InterpreterRuntimeError"

\* run() is over, or the loop of the program ran beyond the bound of the model
Over == Finished \/ pc = "cutoff"

\* the statement is the block and the while loop that the for statement of sc stands for
Desugared(stmt, sc) ==
    LET loop == IF sc.has_i THEN stmt.statements[2] ELSE stmt
    IN  /\ sc.has_i => stmt.k = "BlockStmt" /\ Len(stmt.statements) = 2
        /\ loop.k = "WhileStmt"
        /\ ~sc.has_c => loop.condition = Literal(Bool(TRUE))
        /\ sc.has_u => /\ loop.body.k = "BlockStmt"
                       /\ Len(loop.body.statements) = 2
                       /\ loop.body.statements[2].k = "ExpressionStmt"
        /\ ~sc.has_u => loop.body.k = "BlockStmt" /\ loop.body.statements[Len(loop.body.statements)].k = "PrintStmt"

\* the number of evaluations of a loop condition so far
Conditions == Cardinality({i \in DOMAIN interp.trace : interp.trace[i].e = "cond"})

\* what a run of one of the two forms of sc has come to
SameOutcome(sc) ==
    /\ Printed = sc.prints
    /\ Conditions = sc.conds
    /\ (pc = "cutoff") <=> sc.endless
    /\ Reported("RuntimeError") <=> sc.error # ""
    /\ sc.error # "" => stdout[Len(stdout)].text = sc.error

\* C27: a for statement is parsed into the block `{ I; while (C) { B; U; } }`, with true
\* for a missing C and without the parts that are missing, and a run of the for form and a
\* run of the while form written out print the same lines, evaluate the condition the
\* same number of times and end the same way: the variable of I is unknown after the
\* loop, U runs after each execution of B that completes, break ends the loop, and
\* continue goes to the next evaluation of C without U in both forms.
C27_ForIsWhile ==
    \A sc \in ForScenarios :
        /\ (source_code = sc.for_form /\ pc \notin {"scan", "parse"} /\ ~statements.is_none) =>
              Desugared(statements.stmts[sc.at], sc)
        /\ (source_code \in {sc.for_form, sc.while_form} /\ Over) => SameOutcome(sc)

\* the run of a for statement without increment whose body continues once has ended: the
\* condition was evaluated four times and the line of the skipped round is missing
C27_Witness ==
    /\ Finished
    /\ \E sc \in ForScenarios : ~sc.has_u /\ source_code = sc.for_form
    /\ statements.stmts[1].k = "BlockStmt"
    /\ Conditions = 4
    /\ Printed = <<"1", "3">>
    /\ \E i \in DOMAIN interp.trace : interp.trace[i].e = "signal" /\ interp.trace[i].kind = "Continue"

---------------------------------------------------------------------------
\* the accesses of names in the history: reads of Variable, Self and Super nodes and
\* stores of Assign nodes
IsAccess(i) == interp.trace[i].e \in {"read", "assign"}

\* C28: each time a Variable, Assign, Self or Super node with a recorded depth k is
\* evaluated, following `enclosing` k times from the current environment reaches an
\* environment (the walk does not run off the chain) whose local map contains the
\* node's name; a node without a recorded depth goes to globals only: its read gives
\* what globals binds, and the access fails when globals does not bind the name.
C28_DepthReachesBinding ==
    \A i \in DOMAIN interp.trace :
        IsAccess(i) =>
            IF interp.trace[i].resolved
            THEN /\ interp.trace[i].target # 0
                 /\ interp.trace[i].holds
            ELSE /\ interp.trace[i].target = interp.globals
                 /\ interp.envs[interp.globals].enclosing = 0
                 /\ IF interp.trace[i].holds
                    THEN /\ interp.trace[i].result = "ok"
                         /\ interp.trace[i].e = "read" => interp.trace[i].value = interp.trace[i].bound
                    ELSE interp.trace[i].result = "InterpreterRuntimeError"

\* the scenarios that touch a name inside its own initializer
OwnInitializerPrograms == {sc.program : sc \in {x \in DepthScenarios : x.prints \in {<<"1">>, <<"nil">>}}}

\* what the depth scenarios print, none with a RuntimeError; and away from a variable's
\* own initializer every access reaches a binding
DepthScenarioLines ==
    /\ \A sc \in DepthScenarios :
          (source_code = sc.program /\ Finished) => Printed = sc.prints /\ ~Reported("RuntimeError")
    /\ source_code \notin OwnInitializerPrograms => C28_DepthReachesBinding

---------------------------------------------------------------------------
\* event i is the end of a class declaration
IsClassDeclaration(i) == interp.trace[i].e = "class"

\* the environment allocated by the class declaration of event i
SuperEnvironment(i) == interp.trace[i].allocated[interp.trace[i].envs + 1]

\* the class declaration of event i went through: one class object more, the declaring
\* environment binds the name to it, its methods are the declared ones; with a superclass
\* one environment was allocated, enclosed by the declaring one and binding `super` (and
\* nothing else) to the class the superclass expression gave, and it is the closure of
\* every method; without a superclass no environment was allocated and the declaring
\* environment is the closure of every method
ClassDeclared(i) ==
    /\ interp.trace[i].classes_after = interp.trace[i].classes + 1
    /\ interp.trace[i].bound = ClassRef(interp.trace[i].classes_after)
    /\ interp.trace[i].methods = interp.trace[i].declared
    /\ IF interp.trace[i].has_superclass
       THEN /\ DOMAIN interp.trace[i].allocated = {interp.trace[i].envs + 1}
            /\ SuperEnvironment(i).enclosing = interp.trace[i].before
            /\ DOMAIN SuperEnvironment(i).values = {"super"}
            /\ SuperEnvironment(i).values["super"] = ClassRef(interp.trace[i].superclass)
            /\ interp.trace[i - 1].value = ClassRef(interp.trace[i].superclass)
            /\ interp.trace[i].closures \subseteq {interp.trace[i].envs + 1}
       ELSE /\ DOMAIN interp.trace[i].allocated = {}
            /\ interp.trace[i].superclass = 0
            /\ interp.trace[i].closures \subseteq {interp.trace[i].before}

\* the class declaration of event i raised: it names a superclass, the error is a
\* RuntimeError, and no class object, environment or binding was made
ClassRefused(i) ==
    /\ interp.trace[i].has_superclass
    /\ interp.trace[i].result = "InterpreterRuntimeError"
    /\ interp.trace[i].message \in {"Superclass must be a class.",
                                    "Undefined variable '" \o interp.trace[i - 1].name \o "'."}
    /\ interp.trace[i].classes_after = interp.trace[i].classes
    /\ interp.trace[i].same

\* C29: a class declaration leaves the current environment pointer as it was before the
\* statement, binds the class name in that environment to the new class object, and gives
\* every method as closure the environment holding `super` when a superclass is named and
\* the declaring environment otherwise; when the superclass expression does not give a
\* class the statement raises RuntimeError, and the pointer is unchanged then too.
C29_ClassDeclaration ==
    /\ \A i \in DOMAIN interp.trace :
        IsClassDeclaration(i) =>
            /\ interp.trace[i].after = interp.trace[i].before
            /\ IF interp.trace[i].result = "ok" THEN ClassDeclared(i) ELSE ClassRefused(i)
            /\ interp.trace[i].has_superclass =>
                  /\ i > 1
                  /\ interp.trace[i - 1].e = "read"
                  /\ interp.trace[i - 1].node = "Variable"
                  /\ interp.trace[i].result = "ok" <=>
                        (interp.trace[i - 1].result = "ok" /\ interp.trace[i - 1].value.t = "class")
    /\ \A sc \in ClassDeclScenarios :
        (source_code = sc.program /\ Finished) =>
            /\ Printed = sc.prints
            /\ IF sc.error = "" THEN ~Reported("RuntimeError")
               ELSE \E n \in RuntimeErrorLines : stdout[n].text = sc.error
            /\ \E i \in DOMAIN interp.trace : IsClassDeclaration(i) /\ (interp.trace[i].result = "ok" <=> sc.error = "")

\* a class with a superclass and a method has been declared at top level: the method's
\* closure is the new environment that binds `super`, the current environment is the
\* globals environment again, and the run went on to call the method
C29_Witness ==
    /\ Finished
    /\ Printed = <<"2", "1">>
    /\ \E i \in DOMAIN interp.trace :
          /\ IsClassDeclaration(i)
          /\ interp.trace[i].has_superclass
          /\ interp.trace[i].result = "ok"
          /\ interp.trace[i].closures = {interp.trace[i].envs + 1}
          /\ interp.trace[i].after = interp.globals
          /\ interp.trace[i].bound = ClassRef(2)

---------------------------------------------------------------------------
RECURSIVE SuperclassAfter(_, _)
\* the class reached from class c by following `superclass` n times; 0 (None) from the
\* end of the chain on
SuperclassAfter(c, n) ==
    IF c = 0 \/ n = 0 THEN c ELSE SuperclassAfter(interp.classes[c].superclass, n - 1)

\* the names looked up: "init", every method name of every class, and one no class has
LookedUp == {"init", "nope"} \cup UNION {DOMAIN interp.classes[c].methods : c \in DOMAIN interp.classes}

\* find_method(name) on class c stops within as many steps as there are classes: at a
\* class that has the method or at one that has no superclass
FindMethodStops(c, name) ==
    \E n \in 0..(Len(interp.classes) - 1) :
        /\ SuperclassAfter(c, n) # 0
        /\ \/ name \in DOMAIN interp.classes[SuperclassAfter(c, n)].methods
           \/ interp.classes[SuperclassAfter(c, n)].superclass = 0

\* in this state the superclass of every class object is None or a class object built
\* before it, no chain comes back to its class, every chain ends, and find_method and
\* arity give their answer for every class (and name)
ChainsEnd ==
    \A c \in DOMAIN interp.classes :
        /\ interp.classes[c].superclass \in 0..(c - 1)
        /\ \A n \in 1..Len(interp.classes) : SuperclassAfter(c, n) # c
        /\ SuperclassAfter(c, Len(interp.classes)) = 0
        /\ \A name \in LookedUp :
              /\ FindMethodStops(c, name)
              /\ PylangClass_find_method(interp, c, name) = NearestMethod(ClassChain(c), name)
        /\ PylangClass_arity(interp, c) \in Nat

\* a step keeps every class object as it is: its superclass is not reassigned
ClassesKept ==
    \A c \in DOMAIN interp.classes :
        /\ c \in DOMAIN interp'.classes
        /\ interp'.classes[c] = interp.classes[c]

\* C30: in every reachable state the superclass chain of every class object is finite and
\* acyclic: a superclass is a class object that existed before the class was built (when
\* the declaration began), and no step reassigns it; so find_method and arity terminate
\* for every class and name.
C30_SuperclassChainsEnd ==
    /\ [](/\ ChainsEnd
          /\ \A i \in DOMAIN interp.trace :
                IsClassDeclaration(i) => interp.trace[i].superclass <= interp.trace[i].classes
          /\ \A sc \in ChainScenarios :
                (source_code = sc.program /\ Finished) =>
                    /\ Printed = sc.prints
                    /\ IF sc.error = "" THEN ~Reported("RuntimeError")
                       ELSE \E n \in RuntimeErrorLines : stdout[n].text = sc.error
                    /\ Len(interp.classes) = sc.classes)
    /\ [][ClassesKept]_vars

\* a chain of three classes has been built and a method of the topmost class was found
\* from the bottom one, two steps up
C30_Witness ==
    /\ Finished
    /\ Printed = <<"1">>
    /\ ~Reported("RuntimeError")
    /\ Len(interp.classes) = 3
    /\ SuperclassAfter(3, 2) = 1
    /\ SuperclassAfter(3, 3) = 0
    /\ "m" \in DOMAIN interp.classes[1].methods
    /\ PylangClass_find_method(interp, 3, "m") = interp.classes[1].methods["m"]

=============================================================================
